---- MODULE Spec2Model ----
(***************************************************************************)
(* A model of the protocol execution substrate of the three-party IPA      *)
(* helper network: the stream hand-off between transport and gateway       *)
(* (helpers/transport/stream.rs, receive.rs), the ordered send path, the   *)
(* semi-honest multiplication and the malicious context chain with its     *)
(* batched validation.                                                     *)
(*                                                                         *)
(* The module holds several specifications, one per component.  A          *)
(* component that a specification does not exercise is held at its Idle    *)
(* value.                                                                  *)
(***************************************************************************)
EXTENDS Integers, Sequences, FiniteSets, TLC

VARIABLES
    \* ---- StreamCollection / ReceiveRecords (helpers/transport) ----
    streams,      \* StreamCollection.inner: key -> entry (Absent when no entry)
    rcv,          \* ReceiveRecordsInner of every receiver
    runnable,     \* tasks that the executor will poll (spawned or woken)
    nextStream,   \* identity of the next inbound stream the transport hands over
    accepted,     \* history: per key, the streams add_stream stored
    taken,        \* history: per key, the (receiver, stream) pairs add_waker returned
    lastCall,     \* history: the last call on the collection and its outcome
    poisoned,     \* the mutex of the collection is poisoned
    \* ---- ordered send path of the gateway (one OrderingSender per channel) ----
    sender,       \* per channel: next record to accept and the unflushed records
    wire,         \* per channel: the records the transport has been handed, in order
    prod,         \* per producer (gate, record): where its send call stands
    lastSend,     \* history: the last send call and its outcome
    \* ---- one semi-honest multiplication, run by the three parties ----
    mIn,          \* the additive parts of the two operands and the secrets
    mSeed,        \* the PRSS seed of the query
    mZeros,       \* the zero profile the call was made with (zeros_at)
    mPc,          \* per party: position in the multiply call
    mChan,        \* per party: the message in flight from its left neighbour
    mD,           \* per party: the value it sent to the right (right_d)
    mOut,         \* per party: the share the call returned
    mSent,        \* history: per party, whether its message was sent
    \* ---- the malicious context chain of Runner::malicious ----
    vIn,          \* the additive parts of the two inputs and the secrets
    vSeed,        \* the PRSS seed of the query
    vCheat,       \* the deviation: who perturbs which multiply message by what
    vPc,          \* per party: position in the closure of Runner::malicious
    vChan,        \* per party: the messages in flight from its left neighbour
    vLocal,       \* per party: validator, upgraded shares, result, accumulator
    vRes,         \* per party: what validate returned
    vOut,         \* per party: what the closure returned (or that it panicked)
    vSanity,      \* the sanity check of the runner on the three results
    \* ---- two gates built by narrowing, in both encodings ----
    gSeq,         \* per builder: the names narrowed so far
    gCompact,     \* per builder: the compact gate, or that narrow panicked
    gDesc,        \* per builder: the descriptive gate
    gParent,      \* history: per builder, the compact state before the last narrow
    gDiag,        \* per builder: what as_ref returned for the two gates, if called
    \* ---- the contexts derived from two roots ----
    cCtx,         \* the contexts held, each with how it was made
    \* ---- local arithmetic on one sharing ----
    shShares,     \* per party: the share it holds
    shLast,       \* history: the operation applied last, and on what
    shOps,        \* how many operations were applied
    \* ---- shares written to a buffer and read back ----
    serIn,        \* the shares serialized so far
    serBuf,       \* the buffer
    serOut,       \* what from_byte_slice gave, once called
    \* ---- a value known to the three parties, shared ----
    known,        \* the value, the share of each party, the messages sent
    \* ---- the channels sent to the peers over HTTP ----
    netCalls,     \* the calls of send, with what came of each
    \* ---- the receiving end of one channel ----
    ur,           \* bytes arrived, next record, requests, refused requests
    \* ---- the receivers of the gateway, asked for concurrently ----
    gr,           \* the map, the receivers made, each caller's position
    \* ---- a body stream read through LogErrors ----
    le,           \* the inner stream, what it answered, what LogErrors answered
    \* ---- the bodies of the step requests of the HTTP transport ----
    body,         \* chunks arrived, chunks read, what each receiver yielded
    \* ---- the role resolving adapter of a query ----
    rrt,          \* the role assignment, the own identity, the calls made
    \* ---- a call of a binary tree function of the attribution protocols ----
    bt,           \* the slices, the position in the loop, the multiplications issued
    \* ---- the contexts derived from a ProtocolContext ----
    pctx,         \* the contexts held, the accumulators asked for
    \* ---- derive(Step): the tree of the steps file (ipa-macros) ----
    tree          \* the lines read, the nodes and their parents, the generated arms

streamVars == <<streams, rcv, runnable, nextStream, accepted, taken, lastCall, poisoned>>
sendVars == <<sender, wire, prod, lastSend>>
mulVars == <<mIn, mSeed, mZeros, mPc, mChan, mD, mOut, mSent>>

malVars == <<vIn, vSeed, vCheat, vPc, vChan, vLocal, vRes, vOut, vSanity>>

gateVars == <<gSeq, gCompact, gDesc, gParent, gDiag>>

ctxVars == <<cCtx>>

shareVars == <<shShares, shLast, shOps>>

serVars == <<serIn, serBuf, serOut>>

knownVars == <<known>>

netVars == <<netCalls>>

urVars == <<ur>>

grVars == <<gr>>

leVars == <<le>>

bodyVars == <<body>>

rrtVars == <<rrt>>

btVars == <<bt>>

pcVars == <<pctx>>

trVars == <<tree>>

vars == <<streamVars, sendVars, mulVars, malVars, gateVars, ctxVars, shareVars, serVars, knownVars, netVars, urVars, grVars, leVars, bodyVars, rrtVars, btVars, pcVars, trVars>>

(***************************************************************************)
(* StreamCollection and ReceiveRecords                                     *)
(***************************************************************************)

\* Bound on the number of add_stream calls (each hands over a fresh stream).
MaxStreams == 3

QueryIds == {"q1"}
Peers == {"H2", "H3"}
Gates == {"a", "b"}
\* StreamKey = (QueryId, HelperIdentity, Gate).  Three keys are in use: one
\* that two receivers compete for, one of another peer and one of another
\* gate.
StreamKey == (QueryIds \X Peers \X Gates) \ {<<"q1", "H3", "b">>}

Tasks == {"t1", "t2", "t3"}
NoTask == "none"
NoStream == 0

\* The receivers of the model and the key each was created with
\* (ReceiveRecords::new(key, coll)).  r1 and r2 compete for one key.
Receivers == {"r1", "r2", "r3", "r4"}
RKey(r) ==
    CASE r = "r3" -> <<"q1", "H3", "a">>
      [] r = "r4" -> <<"q1", "H2", "b">>
      [] OTHER -> <<"q1", "H2", "a">>

\* enum RecordsStream, plus Absent for a vacant HashMap entry
Absent == [state |-> "Absent", waker |-> NoTask, stream |-> NoStream]
Waiting(waker) == [state |-> "Waiting", waker |-> waker, stream |-> NoStream]
Ready(stream) == [state |-> "Ready", waker |-> NoTask, stream |-> stream]
Completed == [state |-> "Completed", waker |-> NoTask, stream |-> NoStream]

\* enum ReceiveRecordsInner, plus the receiver whose poll panicked
RcvPending == [state |-> "Pending", stream |-> NoStream]
RcvReady(stream) == [state |-> "Ready", stream |-> stream]
RcvPanicked == [state |-> "Panicked", stream |-> NoStream]

\* Waker::will_wake: two wakers wake the same task
will_wake(old_waker, waker) == old_waker = waker

\* A plausible slip: the stream is stored but the parked receiver is not woken.
add_stream_no_wake(entry, stream) ==
    CASE entry.state = "Waiting" ->
            [entry |-> Ready(stream), wake |-> NoTask, panic |-> FALSE]
      [] entry.state \in {"Ready", "Completed"} ->
            [entry |-> entry, wake |-> NoTask, panic |-> TRUE]
      [] OTHER ->
            [entry |-> Ready(stream), wake |-> NoTask, panic |-> FALSE]

\* A plausible slip: a second stream for the key replaces the first.
add_stream_overwrite(entry, stream) ==
    CASE entry.state = "Waiting" ->
            [entry |-> Ready(stream), wake |-> entry.waker, panic |-> FALSE]
      [] entry.state = "Completed" ->
            [entry |-> entry, wake |-> NoTask, panic |-> TRUE]
      [] OTHER ->
            [entry |-> Ready(stream), wake |-> NoTask, panic |-> FALSE]

\* A plausible slip: a stream that finds a waker wakes it and is dropped.
add_stream_wake_only(entry, stream) ==
    CASE entry.state = "Waiting" ->
            [entry |-> entry, wake |-> entry.waker, panic |-> FALSE]
      [] entry.state \in {"Ready", "Completed"} ->
            [entry |-> entry, wake |-> NoTask, panic |-> TRUE]
      [] OTHER ->
            [entry |-> Ready(stream), wake |-> NoTask, panic |-> FALSE]

\* A plausible slip: a stream is stored again for a key whose stream was
\* taken.
add_stream_after_completed(entry, stream) ==
    CASE entry.state = "Waiting" ->
            [entry |-> Ready(stream), wake |-> entry.waker, panic |-> FALSE]
      [] entry.state = "Ready" ->
            [entry |-> entry, wake |-> NoTask, panic |-> TRUE]
      [] OTHER ->
            [entry |-> Ready(stream), wake |-> NoTask, panic |-> FALSE]

\* StreamCollection::add_stream on the entry of one key: the new entry, the
\* waker it wakes and whether it panics.
add_stream(entry, stream) ==
    CASE entry.state = "Waiting" ->
            [entry |-> Ready(stream), wake |-> entry.waker, panic |-> FALSE]
      [] entry.state \in {"Ready", "Completed"} ->
            [entry |-> entry, wake |-> NoTask, panic |-> TRUE]
      [] OTHER ->
            [entry |-> Ready(stream), wake |-> NoTask, panic |-> FALSE]

\* A plausible slip: the stream is handed out but no tombstone is left.
add_waker_no_tombstone(entry, waker) ==
    CASE entry.state = "Waiting" ->
            IF will_wake(entry.waker, waker)
            THEN [entry |-> entry, ret |-> NoStream, panic |-> FALSE]
            ELSE [entry |-> entry, ret |-> NoStream, panic |-> TRUE]
      [] entry.state = "Ready" ->
            [entry |-> entry, ret |-> entry.stream, panic |-> FALSE]
      [] entry.state = "Completed" ->
            [entry |-> entry, ret |-> NoStream, panic |-> TRUE]
      [] OTHER ->
            [entry |-> Waiting(waker), ret |-> NoStream, panic |-> FALSE]

\* A plausible slip: a poll from another task takes the place of the waker
\* that is stored.
add_waker_replaces_waker(entry, waker) ==
    CASE entry.state = "Waiting" ->
            [entry |-> Waiting(waker), ret |-> NoStream, panic |-> FALSE]
      [] entry.state = "Ready" ->
            [entry |-> Completed, ret |-> entry.stream, panic |-> FALSE]
      [] entry.state = "Completed" ->
            [entry |-> entry, ret |-> NoStream, panic |-> TRUE]
      [] OTHER ->
            [entry |-> Waiting(waker), ret |-> NoStream, panic |-> FALSE]

\* StreamCollection::add_waker on the entry of one key: the new entry, the
\* stream it returns (NoStream for None) and whether it panics.
add_waker(entry, waker) ==
    CASE entry.state = "Waiting" ->
            IF will_wake(entry.waker, waker)
            THEN [entry |-> entry, ret |-> NoStream, panic |-> FALSE]
            ELSE [entry |-> entry, ret |-> NoStream, panic |-> TRUE]
      [] entry.state = "Ready" ->
            [entry |-> Completed, ret |-> entry.stream, panic |-> FALSE]
      [] entry.state = "Completed" ->
            [entry |-> entry, ret |-> NoStream, panic |-> TRUE]
      [] OTHER ->
            [entry |-> Waiting(waker), ret |-> NoStream, panic |-> FALSE]

\* What a panic would leave if add_waker asserted will_wake with the guard
\* of the map still alive.
guard_held_on_assert(op, state) == ~(op = "add_waker" /\ state = "Waiting")

\* Whether the guard of the map has been dropped when the call panics on an
\* entry in the given state: drop(streams) comes before every panic! and
\* before the assert!.
guard_dropped_before_panic(op, state) == TRUE

\* add_stream behind self.inner.lock().unwrap(): a poisoned mutex panics
\* at once; a panic with the guard alive poisons the mutex.
locked_add_stream(poison, entry, stream) ==
    IF poison
    THEN [entry |-> entry, wake |-> NoTask, panic |-> TRUE, poison |-> TRUE]
    ELSE LET res == add_stream(entry, stream) IN
         [entry |-> res.entry, wake |-> res.wake, panic |-> res.panic,
          poison |-> res.panic /\ ~guard_dropped_before_panic("add_stream", entry.state)]

\* add_waker behind self.inner.lock().unwrap().
locked_add_waker(poison, entry, waker) ==
    IF poison
    THEN [entry |-> entry, ret |-> NoStream, panic |-> TRUE, poison |-> TRUE]
    ELSE LET res == add_waker(entry, waker) IN
         [entry |-> res.entry, ret |-> res.ret, panic |-> res.panic,
          poison |-> res.panic /\ ~guard_dropped_before_panic("add_waker", entry.state)]

StreamInit ==
    /\ streams = [k \in StreamKey |-> Absent]
    /\ poisoned = FALSE
    /\ rcv = [r \in Receivers |-> RcvPending]
    /\ runnable = Tasks
    /\ nextStream = 1
    /\ accepted = [k \in StreamKey |-> <<>>]
    /\ taken = [k \in StreamKey |-> <<>>]
    /\ lastCall = [op |-> "none", key |-> <<>>, by |-> NoTask, before |-> "Absent",
                   result |-> "none", stream |-> NoStream]

\* The transport hands the inbound stream of `key` to the collection.
AddStream(key) ==
    LET res == locked_add_stream(poisoned, streams[key], nextStream) IN
    /\ nextStream <= MaxStreams
    /\ nextStream' = nextStream + 1
    /\ streams' = [streams EXCEPT ![key] = res.entry]
    /\ poisoned' = res.poison
    /\ runnable' = IF res.wake = NoTask THEN runnable ELSE runnable \cup {res.wake}
    /\ accepted' = IF res.panic THEN accepted
                   ELSE [accepted EXCEPT ![key] = Append(@, nextStream)]
    /\ lastCall' = [op |-> "add_stream", key |-> key, by |-> NoTask,
                    before |-> streams[key].state,
                    result |-> IF res.panic THEN "panic" ELSE "ok",
                    stream |-> nextStream]
    /\ UNCHANGED <<rcv, taken>>
    /\ UNCHANGED <<sendVars, mulVars, malVars, gateVars, ctxVars, shareVars, serVars, knownVars, netVars, urVars, grVars, leVars, bodyVars, rrtVars, btVars, pcVars, trVars>>

\* ReceiveRecordsInner::poll_next of receiver r, polled with the waker of task:
\* what it does to the collection and to the receiver.
PollRecords(r, task) ==
    LET key == RKey(r)
        res == locked_add_waker(poisoned, streams[key], task)
    IN
    IF rcv[r].state = "Pending"
    THEN /\ streams' = [streams EXCEPT ![key] = res.entry]
         /\ poisoned' = res.poison
         /\ rcv' = [rcv EXCEPT ![r] =
                        IF res.panic THEN RcvPanicked
                        ELSE IF res.ret # NoStream THEN RcvReady(res.ret)
                        ELSE RcvPending]
         \* Poll::Pending parks the task until its waker is woken
         /\ runnable' = IF ~res.panic /\ res.ret = NoStream
                        THEN runnable \ {task} ELSE runnable
         /\ taken' = IF res.ret # NoStream
                     THEN [taken EXCEPT ![key] = Append(@, <<r, res.ret>>)]
                     ELSE taken
         /\ lastCall' = [op |-> "add_waker", key |-> key, by |-> task,
                         before |-> streams[key].state,
                         result |-> IF res.panic THEN "panic"
                                    ELSE IF res.ret # NoStream THEN "some"
                                    ELSE "none",
                         stream |-> res.ret]
         /\ UNCHANGED <<nextStream, accepted>>
    ELSE \* Self::Ready(stream): the poll goes to the stream itself
         /\ rcv[r].state = "Ready"
         /\ lastCall' = [op |-> "poll_stream", key |-> key, by |-> task,
                         before |-> streams[key].state, result |-> "none",
                         stream |-> rcv[r].stream]
         /\ UNCHANGED <<streams, rcv, runnable, nextStream, accepted, taken, poisoned>>

\* The poll, the stream of the receiver being left to its owner.
PollNext(r, task) ==
    /\ PollRecords(r, task)
    /\ UNCHANGED <<sendVars, mulVars, malVars, gateVars, ctxVars, shareVars, serVars, knownVars, netVars, urVars, grVars, leVars, bodyVars, rrtVars, btVars, pcVars, trVars>>

\* The executor polls a task that was spawned or woken.
ScheduledPoll(r, task) ==
    /\ task \in runnable
    /\ PollNext(r, task)

\* A future may be polled again without having been woken.
SpuriousPoll(r, task) ==
    /\ task \notin runnable
    /\ PollNext(r, task)

StreamNext ==
    \/ \E key \in StreamKey : AddStream(key)
    \/ \E r \in Receivers, task \in Tasks : ScheduledPoll(r, task)
    \/ \E r \in Receivers, task \in Tasks : SpuriousPoll(r, task)

\* The collection before any call, as held by the specifications of the
\* other components.
StreamIdle == StreamInit

(***************************************************************************)
(* The ordered send path.  A context resolves its channel with             *)
(* send_channel; the sender of a channel accepts the records in RecordId   *)
(* order and holds at most ActiveWork of them until the transport takes    *)
(* them.                                                                   *)
(***************************************************************************)

\* GatewayConfig::active_work, scaled down.
ActiveWork == 2
\* Bound on the records of one channel (the TotalRecords of its context).
MaxRecords == 3

SendRoles == {"H2"}
\* ChannelId = (peer Role, Gate)
ChannelId == SendRoles \X Gates
RecordIds == 0 .. (MaxRecords - 1)
Producers == Gates \X RecordIds

\* The context a producer sends under: narrowed to the gate, with the
\* declared total records.
SendContext(gate) == [step |-> gate, total_records |-> MaxRecords]

\* A plausible slip: the channel is keyed by the peer role alone, so that the
\* steps of a context share one sender.
send_channel_ignore_step(ctx, role) == <<role, "a">>

\* SemiHonestContext::send_channel: the channel is keyed by the peer role
\* and the step of the context.
send_channel(ctx, role) == <<role, ctx.step>>

\* The message of one record: (Gate, RecordId) addresses it on the wire.
Message(gate, i) == [gate |-> gate, rec |-> i]

\* A plausible slip: the capacity check is off by one.
ordering_send_off_by_one(s, i, msg) ==
    IF i < s.next
    THEN [sender |-> s, outcome |-> "panic"]
    ELSE IF i > s.next \/ Len(s.buf) > ActiveWork
    THEN [sender |-> s, outcome |-> "parked"]
    ELSE [sender |-> [next |-> i + 1, buf |-> Append(s.buf, msg)],
          outcome |-> "admitted"]

\* OrderingSender::send for record i: a record that was sent already is a
\* contract violation, a record ahead of its turn waits, the record whose
\* turn it is is accepted when the buffer has room and waits otherwise.
ordering_send(s, i, msg) ==
    IF i < s.next
    THEN [sender |-> s, outcome |-> "panic"]
    ELSE IF i > s.next \/ Len(s.buf) >= ActiveWork
    THEN [sender |-> s, outcome |-> "parked"]
    ELSE [sender |-> [next |-> i + 1, buf |-> Append(s.buf, msg)],
          outcome |-> "admitted"]

\* A producer: where its send call stands, the channel it resolved, and
\* whether the call was ever suspended by a full buffer.
ProdIdle == [state |-> "idle", chan |-> <<>>, full |-> FALSE]

SendInit ==
    /\ sender = [c \in ChannelId |-> [next |-> 0, buf |-> <<>>]]
    /\ wire = [c \in ChannelId |-> <<>>]
    /\ prod = [p \in Producers |-> ProdIdle]
    /\ lastSend = [op |-> "none", chan |-> <<>>, rec |-> 0, next |-> 0,
                   buffered |-> 0, outcome |-> "none"]

SendIdle == SendInit

\* The producers parked on channel c for record i are woken.
WakeProducers(pr, c, i) ==
    [p \in Producers |->
        IF pr[p].state = "parked" /\ pr[p].chan = c /\ p[2] = i
        THEN [pr[p] EXCEPT !.state = "woken"]
        ELSE pr[p]]

\* The task of record i under the context of `gate` polls
\* ctx.send_channel(role).send(i, msg): first when the record is ready, then
\* whenever it was woken.
SendPoll(gate, i, role) ==
    LET p == <<gate, i>>
        c == send_channel(SendContext(gate), role)
        res == ordering_send(sender[c], i, Message(gate, i))
    IN
    /\ prod[p].state \in {"idle", "woken"}
    /\ sender' = [sender EXCEPT ![c] = res.sender]
    /\ prod' = IF res.outcome = "admitted"
               THEN WakeProducers([prod EXCEPT ![p] = [state |-> "sent", chan |-> c,
                                                          full |-> prod[p].full]],
                                  c, res.sender.next)
               ELSE [prod EXCEPT ![p] =
                        [state |-> IF res.outcome = "panic" THEN "panicked" ELSE "parked",
                         chan |-> c,
                         full |-> prod[p].full
                                  \/ (res.outcome = "parked" /\ i = sender[c].next)]]
    /\ lastSend' = [op |-> "send", chan |-> c, rec |-> i, next |-> sender[c].next,
                    buffered |-> Len(sender[c].buf), outcome |-> res.outcome]
    /\ UNCHANGED wire
    /\ UNCHANGED <<streamVars, mulVars, malVars, gateVars, ctxVars, shareVars, serVars, knownVars, netVars, urVars, grVars, leVars, bodyVars, rrtVars, btVars, pcVars, trVars>>

\* The transport takes what channel c has buffered, in buffer order, and
\* the producer that waited for room is woken.
Flush(c) ==
    /\ sender[c].buf # <<>>
    /\ wire' = [wire EXCEPT ![c] = @ \o sender[c].buf]
    /\ sender' = [sender EXCEPT ![c].buf = <<>>]
    /\ prod' = WakeProducers(prod, c, sender[c].next)
    /\ lastSend' = [op |-> "flush", chan |-> c, rec |-> 0, next |-> sender[c].next,
                    buffered |-> Len(sender[c].buf), outcome |-> "none"]
    /\ UNCHANGED <<streamVars, mulVars, malVars, gateVars, ctxVars, shareVars, serVars, knownVars, netVars, urVars, grVars, leVars, bodyVars, rrtVars, btVars, pcVars, trVars>>

SendNext ==
    \/ \E gate \in Gates, i \in RecordIds, role \in SendRoles : SendPoll(gate, i, role)
    \/ \E c \in ChannelId : Flush(c)

\* Some record of the gate above record i has been handed to the send path.
SubmittedAbove(gate, i) ==
    \E j \in RecordIds : j > i /\ prod[<<gate, j>>].state # "idle"

\* The polls the executor owes: a woken task is polled again, and a record
\* below a submitted one is submitted.
OwedPoll ==
    \E gate \in Gates, i \in RecordIds, role \in SendRoles :
        /\ prod[<<gate, i>>].state = "woken" \/ SubmittedAbove(gate, i)
        /\ SendPoll(gate, i, role)

\* The transport takes what some channel has buffered.
Drain == \E c \in ChannelId : Flush(c)

\* The scheduling the send path relies on: the executor does not stop
\* while a poll is owed, and the transport does not stop while a channel has
\* bytes buffered.  Every step of the send path uses up a record, a wake or
\* a buffer, so neither can starve one producer or one channel for ever.
SendFairness == WF_vars(OwedPoll) /\ WF_vars(Drain)

(***************************************************************************)
(* Replicated additive shares over the prime field and the semi-honest     *)
(* multiplication.                                                         *)
(***************************************************************************)

\* The field of the test queries, Fp31.
PRIME == 31
\* Bound on the secrets of the multiplication (0 .. MaxInput).
MaxInput == 5
\* Bound on the PRSS seeds (0 .. MaxSeed).
MaxSeed == 1

Field == 0 .. (PRIME - 1)
FAdd(x, y) == (x + y) % PRIME
FSub(x, y) == (x - y + PRIME) % PRIME
FMul(x, y) == (x * y) % PRIME
FNeg(x) == (PRIME - x) % PRIME

\* Role H1, H2, H3 and the cyclic neighbours (Role::peer)
Roles == 1 .. 3
RightOf(i) == (i % 3) + 1
LeftOf(i) == ((i + 1) % 3) + 1

\* AdditiveShare(left, right)
ShareNew(a, b) == <<a, b>>
left(share) == share[1]
right_returns_left(share) == share[1]
right(share) == share[2]

\* tests::secret_share: the shares of the three parties from the additive
\* parts (a, b, c)
secret_share(a, b, c) == <<ShareNew(a, b), ShareNew(b, c), ShareNew(c, a)>>

\* tests::assert_valid_secret_sharing
valid_secret_sharing(res) ==
    /\ right(res[1]) = left(res[2])
    /\ right(res[2]) = left(res[3])
    /\ right(res[3]) = left(res[1])

\* tests::assert_secret_shared_value
secret_shared_value(res, expected) ==
    /\ FAdd(FAdd(left(res[1]), left(res[2])), left(res[3])) = expected
    /\ FAdd(FAdd(right(res[1]), right(res[2])), right(res[3])) = expected

\* The values an input is split with: thread_rng draws, sampled.
ShareRand == {0, PRIME - 1}

\* IntoShares: x = x1 + x2 + x3
Sharings(x) == {<<x1, x2, FSub(FSub(x, x1), x2)>> : x1 \in ShareRand, x2 \in ShareRand}

\* PRSS: the field element the two parties of the edge (i, right of i) derive
\* from the query seed, the step and the record, without communication.
PrssEdge(seed, edge, step, rec) ==
    (seed * seed * 2 + seed * (edge * 2 + step * 5 + rec * 11)
        + edge * 13 + step * 17 + rec + 1) % PRIME

\* generate_fields: (value shared with the left, value shared with the right)
prss_fields(seed, i, step, rec) ==
    <<PrssEdge(seed, LeftOf(i), step, rec), PrssEdge(seed, i, step, rec)>>

\* ZeroPositions::NONE: no part of either operand is known to be zero
ZerosNONE == [a |-> {}, b |-> {}]

\* The profiles a caller may pass for given additive parts: a part named
\* zero is zero.
ZeroProfiles(parts) ==
    {z \in [a : SUBSET Roles, b : {{}}] :
        /\ Cardinality(z.a) \in {0, 2}
        /\ \A j \in z.a : parts.a[j] = 0}

\* Party i sends unless its cross term is structurally zero.
need_to_send(zeros, i) ==
    ~ ( /\ (i \in zeros.a \/ RightOf(i) \in zeros.b)
        /\ (RightOf(i) \in zeros.a \/ i \in zeros.b) )
need_to_recv(zeros, i) == need_to_send(zeros, LeftOf(i))
need_random_right(zeros, i) == need_to_send(zeros, RightOf(i))

\* The cross term party i sends to its right neighbour, masked by the PRSS
\* value it shares with its left neighbour.
right_d(a, b, s0) ==
    FSub(FAdd(FMul(left(a), right(b)), FMul(right(a), left(b))), s0)

\* The share the call returns: the local linear combination of the own
\* products, the value sent, the value received and the PRSS masks.
mul_result(a, b, prss, zeros, i, sent_d, left_d) ==
    LET rhs0 == FMul(right(a), right(b))
        rhs1 == IF need_to_send(zeros, i) THEN FAdd(rhs0, sent_d) ELSE rhs0
        rhs == IF need_random_right(zeros, i) THEN FAdd(rhs1, prss[2]) ELSE rhs1
        lhs0 == FMul(left(a), left(b))
        lhs1 == IF need_to_recv(zeros, i) THEN FAdd(lhs0, left_d) ELSE lhs0
        lhs == IF need_to_send(zeros, i) THEN FAdd(lhs1, prss[1]) ELSE lhs1
    IN ShareNew(lhs, rhs)

\* A plausible slip: the call waits for its peer before it sends.
MulProgram_recv_first == <<"recv", "send">>

\* The suspension points of one multiply call, in order: compute and send,
\* then wait for the peer and reconstruct.
MulProgram == <<"send", "recv">>

MulDone(i) == mPc[i] > Len(MulProgram)

\* SecureMul::multiply is multiply_sparse with ZeroPositions::NONE.
multiply_zeros(call, zeros_at) ==
    IF call = "multiply" THEN ZerosNONE ELSE zeros_at

\* The steps of the protocols modelled here; a step narrows the PRSS and
\* addresses the channel.  StepNo is the compact index of a step.
Steps == <<"mul", "mul_dup", "r_share", "upgrade_a", "upgrade_b",
           "mac_a", "mac_b", "mac_mul">>
StepNo(step) == CHOOSE n \in 1 .. Len(Steps) : Steps[n] = step

\* The record the calls modelled here are made for.
MulRecord == 0

MulInit ==
    /\ \E a \in 0 .. MaxInput, b \in 0 .. MaxInput :
        \E pa \in Sharings(a), pb \in Sharings(b) :
            mIn = [a |-> pa, b |-> pb, va |-> a, vb |-> b]
    /\ mSeed \in 0 .. MaxSeed
    /\ \E call \in {"multiply", "multiply_sparse"} :
        \E z \in ZeroProfiles(mIn) :
            /\ call = "multiply" => z = ZerosNONE
            /\ call = "multiply_sparse" => z # ZerosNONE
            /\ mZeros = multiply_zeros(call, z)
    /\ mPc = [i \in Roles |-> 1]
    /\ mChan = [i \in Roles |-> <<>>]
    /\ mD = [i \in Roles |-> 0]
    /\ mOut = [i \in Roles |-> <<>>]
    /\ mSent = [i \in Roles |-> FALSE]

MulIdle ==
    /\ mIn = [a |-> <<0, 0, 0>>, b |-> <<0, 0, 0>>, va |-> 0, vb |-> 0]
    /\ mSeed = 0
    /\ mZeros = ZerosNONE
    /\ mPc = [i \in Roles |-> 1]
    /\ mChan = [i \in Roles |-> <<>>]
    /\ mD = [i \in Roles |-> 0]
    /\ mOut = [i \in Roles |-> <<>>]
    /\ mSent = [i \in Roles |-> FALSE]

\* The shares party i holds of the operands.
MulShareA(i) == secret_share(mIn.a[1], mIn.a[2], mIn.a[3])[i]
MulShareB(i) == secret_share(mIn.b[1], mIn.b[2], mIn.b[3])[i]

\* Party i computes its cross term and sends it to its right neighbour.
MulSend(i) ==
    LET prss == prss_fields(mSeed, i, StepNo("mul"), MulRecord)
        d == right_d(MulShareA(i), MulShareB(i), prss[1])
    IN
    /\ ~MulDone(i)
    /\ MulProgram[mPc[i]] = "send"
    /\ mPc' = [mPc EXCEPT ![i] = @ + 1]
    /\ IF need_to_send(mZeros, i)
       THEN /\ mChan' = [mChan EXCEPT ![RightOf(i)] = <<d>>]
            /\ mD' = [mD EXCEPT ![i] = d]
            /\ mSent' = [mSent EXCEPT ![i] = TRUE]
       ELSE UNCHANGED <<mChan, mD, mSent>>
    /\ UNCHANGED <<mIn, mSeed, mZeros, mOut>>
    /\ UNCHANGED <<streamVars, sendVars, malVars, gateVars, ctxVars, shareVars, serVars, knownVars, netVars, urVars, grVars, leVars, bodyVars, rrtVars, btVars, pcVars, trVars>>

\* Party i receives the message of its left neighbour, when it needs one
\* and once it is there, and reconstructs its share of the product.
MulRecv(i) ==
    LET prss == prss_fields(mSeed, i, StepNo("mul"), MulRecord)
        left_d == IF mChan[i] = <<>> THEN 0 ELSE mChan[i][1]
    IN
    /\ ~MulDone(i)
    /\ MulProgram[mPc[i]] = "recv"
    /\ need_to_recv(mZeros, i) => mChan[i] # <<>>
    /\ mPc' = [mPc EXCEPT ![i] = @ + 1]
    /\ mChan' = [mChan EXCEPT ![i] = <<>>]
    /\ mOut' = [mOut EXCEPT ![i] =
                    mul_result(MulShareA(i), MulShareB(i), prss, mZeros, i, mD[i], left_d)]
    /\ UNCHANGED <<mIn, mSeed, mZeros, mD, mSent>>
    /\ UNCHANGED <<streamVars, sendVars, malVars, gateVars, ctxVars, shareVars, serVars, knownVars, netVars, urVars, grVars, leVars, bodyVars, rrtVars, btVars, pcVars, trVars>>

MulNext ==
    \/ \E i \in Roles : MulSend(i)
    \/ \E i \in Roles : MulRecv(i)

(***************************************************************************)
(* The malicious context chain of the test runner: each party creates a    *)
(* validator, upgrades its input shares, runs one malicious multiplication *)
(* as the protocol function, and validates.  The MAC arithmetic is done in  *)
(* the field of the shares.                                                *)
(***************************************************************************)

\* Bound on the secrets of the chain (0 .. MaxMalInput).
MaxMalInput == 1
\* Bound on the PRSS seeds of the chain (0 .. MaxMalSeed).
MaxMalSeed == 2
\* Bound on the perturbation a deviating party adds (1 .. MaxErr).
MaxErr == 1

\* A plausible slip: the right component is added where it is subtracted.
sub_adds_right(a, b) ==
    ShareNew(FSub(left(a), left(b)), FAdd(right(a), right(b)))

\* Sub for AdditiveShare: componentwise
sub(a, b) == ShareNew(FSub(left(a), left(b)), FSub(right(a), right(b)))

\* Mul<V> for AdditiveShare: both components times the scalar
mul(a, k) == ShareNew(FMul(left(a), k), FMul(right(a), k))

\* AdditiveShare::ZERO
ShareZERO == ShareNew(0, 0)

\* The values the inputs of the chain are split with.
MalSharings(x) == {<<x1, 5, FSub(FSub(x, x1), 5)>> : x1 \in {2, PRIME - 1}}

\* PRSS generate_replicated: the two values of party i as a share
prss_replicated(seed, i, step) ==
    ShareNew(PrssEdge(seed, LeftOf(i), step, MulRecord),
             PrssEdge(seed, i, step, MulRecord))

\* The deviations: nobody, or one party that adds e to the message of the
\* multiplication ("x") or of the MAC multiplication ("rx") of the chain.
NoCheat == [party |-> 0, msg |-> "none", e |-> 0]
Cheats ==
    {NoCheat} \cup [party : Roles, msg : {"x", "rx"}, e : 1 .. MaxErr]
Perturb(cheat, i, msg, d) ==
    IF cheat.party = i /\ cheat.msg = msg THEN FAdd(d, cheat.e) ELSE d

\* The share with MAC of the malicious context: x and r * x
MaliciousShare(x, rx) == [x |-> x, rx |-> rx]
\* DowngradeMalicious: the share without the MAC
downgrade(m) == m.x

\* The contribution of a party to the sum of products of two shared values.
dot_contribution(a, b) ==
    FSub(FMul(FAdd(left(a), right(a)), FAdd(left(b), right(b))),
         FMul(right(a), right(b)))

\* The accumulator update for one share with MAC: with the challenge alpha
\* of the step, u grows by the contribution of alpha * rx and w by that of
\* alpha * x.  No message is sent.
accumulate_macs(acc, seed, i, step, m) ==
    LET alpha == prss_replicated(seed, i, step)
    IN [u |-> FAdd(acc.u, dot_contribution(alpha, m.rx)),
        w |-> FAdd(acc.w, dot_contribution(alpha, m.x))]

\* Results of validate, and the value of a call that has not returned.
NoResult == [kind |-> "none"]
Ok(output) == [kind |-> "Ok", output |-> output]
Err(error) == [kind |-> "Err", error |-> error]

\* A plausible slip: the revealed value is not looked at.
validate_result_always_ok(T, m_result) == Ok(downgrade(m_result))

\* The end of validate: the revealed value is zero and the shares are
\* downgraded, or the check has failed.
validate_result(T, m_result) ==
    IF T = 0
    THEN Ok(downgrade(m_result))
    ELSE Err("MaliciousSecurityCheckFailed")

\* A plausible slip: the closure falls back to the unvalidated result.
runner_unwrap_or_result(res, m_result, r_share) ==
    [panic |-> FALSE, m_result |-> m_result, r_share |-> r_share,
     output |-> IF res.kind = "Ok" THEN res.output ELSE downgrade(m_result)]

\* The closure of Runner::malicious unwraps what validate returned: it
\* returns (m_result, r_share, output) on Ok and panics on Err.
runner_unwrap(res, m_result, r_share) ==
    IF res.kind = "Ok"
    THEN [panic |-> FALSE, m_result |-> m_result, r_share |-> r_share,
          output |-> res.output]
    ELSE [panic |-> TRUE]

NoOutput == [panic |-> FALSE]

MalLocalInit ==
    [r_share |-> ShareZERO,
     a |-> MaliciousShare(ShareZERO, ShareZERO),
     b |-> MaliciousShare(ShareZERO, ShareZERO),
     m_result |-> MaliciousShare(ShareZERO, ShareZERO),
     d |-> <<0, 0>>, u |-> 0, w |-> 0, macs |-> <<>>,
     t |-> ShareZERO, revealed |-> <<>>]

MalInit ==
    /\ \E a \in 0 .. MaxMalInput, b \in 0 .. MaxMalInput :
        \E pa \in MalSharings(a), pb \in MalSharings(b) :
            vIn = [a |-> pa, b |-> pb, va |-> a, vb |-> b]
    /\ vSeed \in 0 .. MaxMalSeed
    /\ vCheat \in Cheats
    /\ vPc = [i \in Roles |-> "start"]
    /\ vChan = [i \in Roles |-> <<>>]
    /\ vLocal = [i \in Roles |-> MalLocalInit]
    /\ vRes = [i \in Roles |-> NoResult]
    /\ vOut = [i \in Roles |-> NoOutput]
    /\ vSanity = "pending"

MalIdle ==
    /\ vIn = [a |-> <<0, 0, 0>>, b |-> <<0, 0, 0>>, va |-> 0, vb |-> 0]
    /\ vSeed = 0
    /\ vCheat = NoCheat
    /\ vPc = [i \in Roles |-> "start"]
    /\ vChan = [i \in Roles |-> <<>>]
    /\ vLocal = [i \in Roles |-> MalLocalInit]
    /\ vRes = [i \in Roles |-> NoResult]
    /\ vOut = [i \in Roles |-> NoOutput]
    /\ vSanity = "pending"

\* The input shares the runner hands to party i.
MalShareA(i) == secret_share(vIn.a[1], vIn.a[2], vIn.a[3])[i]
MalShareB(i) == secret_share(vIn.b[1], vIn.b[2], vIn.b[3])[i]

\* The message of the given round at the head of the channel of party i.
MalHas(i, round) == vChan[i] # <<>> /\ Head(vChan[i]).round = round

MalSendRight(i, msg) ==
    [vChan EXCEPT ![RightOf(i)] = Append(@, msg)]
MalSendRightTake(i, msg) ==
    [vChan EXCEPT ![RightOf(i)] = Append(@, msg), ![i] = Tail(@)]

\* MaliciousValidator::new and the first half of upgrade: party i derives
\* its share of r from the PRSS and sends the cross terms of r * a and r * b.
MalUpgradeSend(i) ==
    LET r_share == prss_replicated(vSeed, i, StepNo("r_share"))
        d_a == right_d(r_share, MalShareA(i),
                       prss_fields(vSeed, i, StepNo("upgrade_a"), MulRecord)[1])
        d_b == right_d(r_share, MalShareB(i),
                       prss_fields(vSeed, i, StepNo("upgrade_b"), MulRecord)[1])
    IN
    /\ vPc[i] = "start"
    /\ vPc' = [vPc EXCEPT ![i] = "upgrade_wait"]
    /\ vLocal' = [vLocal EXCEPT ![i].r_share = r_share, ![i].d = <<d_a, d_b>>]
    /\ vChan' = MalSendRight(i, [round |-> "upgrade", d |-> <<d_a, d_b>>])
    /\ UNCHANGED <<vIn, vSeed, vCheat, vRes, vOut, vSanity>>
    /\ UNCHANGED <<streamVars, sendVars, mulVars, gateVars, ctxVars, shareVars, serVars, knownVars, netVars, urVars, grVars, leVars, bodyVars, rrtVars, btVars, pcVars, trVars>>

\* The second half of upgrade: party i holds the shares with MAC of a and b
\* and has accumulated them.
MalUpgradeRecv(i) ==
    LET l == vLocal[i]
        got == Head(vChan[i]).d
        a == MaliciousShare(MalShareA(i),
                 mul_result(l.r_share, MalShareA(i),
                            prss_fields(vSeed, i, StepNo("upgrade_a"), MulRecord),
                            ZerosNONE, i, l.d[1], got[1]))
        b == MaliciousShare(MalShareB(i),
                 mul_result(l.r_share, MalShareB(i),
                            prss_fields(vSeed, i, StepNo("upgrade_b"), MulRecord),
                            ZerosNONE, i, l.d[2], got[2]))
        acc1 == accumulate_macs([u |-> l.u, w |-> l.w], vSeed, i, StepNo("mac_a"), a)
        acc2 == accumulate_macs(acc1, vSeed, i, StepNo("mac_b"), b)
    IN
    /\ vPc[i] = "upgrade_wait"
    /\ MalHas(i, "upgrade")
    /\ vPc' = [vPc EXCEPT ![i] = "helper"]
    /\ vLocal' = [vLocal EXCEPT ![i].a = a, ![i].b = b,
                                ![i].u = acc2.u, ![i].w = acc2.w,
                                ![i].macs = @ \o <<"mac_a", "mac_b">>]
    /\ vChan' = [vChan EXCEPT ![i] = Tail(@)]
    /\ UNCHANGED <<vIn, vSeed, vCheat, vRes, vOut, vSanity>>
    /\ UNCHANGED <<streamVars, sendVars, mulVars, gateVars, ctxVars, shareVars, serVars, knownVars, netVars, urVars, grVars, leVars, bodyVars, rrtVars, btVars, pcVars, trVars>>

\* The protocol function, first half: the malicious multiplication of a by b
\* sends the cross terms of a.x * b.x and of a.rx * b.x.  A deviating party
\* adds its perturbation to one of them.
MalHelperSend(i) ==
    LET l == vLocal[i]
        d_x == right_d(l.a.x, l.b.x,
                       prss_fields(vSeed, i, StepNo("mul"), MulRecord)[1])
        d_rx == right_d(l.a.rx, l.b.x,
                        prss_fields(vSeed, i, StepNo("mul_dup"), MulRecord)[1])
    IN
    /\ vPc[i] = "helper"
    /\ vPc' = [vPc EXCEPT ![i] = "helper_wait"]
    /\ vLocal' = [vLocal EXCEPT ![i].d = <<d_x, d_rx>>]
    /\ vChan' = MalSendRight(i, [round |-> "helper",
                                 d |-> <<Perturb(vCheat, i, "x", d_x),
                                         Perturb(vCheat, i, "rx", d_rx)>>])
    /\ UNCHANGED <<vIn, vSeed, vCheat, vRes, vOut, vSanity>>
    /\ UNCHANGED <<streamVars, sendVars, mulVars, gateVars, ctxVars, shareVars, serVars, knownVars, netVars, urVars, grVars, leVars, bodyVars, rrtVars, btVars, pcVars, trVars>>

\* The protocol function, second half: the product with its MAC is
\* reconstructed and accumulated, and the function returns it.
MalHelperRecv(i) ==
    LET l == vLocal[i]
        got == Head(vChan[i]).d
        z == MaliciousShare(
                 mul_result(l.a.x, l.b.x,
                            prss_fields(vSeed, i, StepNo("mul"), MulRecord),
                            ZerosNONE, i, l.d[1], got[1]),
                 mul_result(l.a.rx, l.b.x,
                            prss_fields(vSeed, i, StepNo("mul_dup"), MulRecord),
                            ZerosNONE, i, l.d[2], got[2]))
        acc == accumulate_macs([u |-> l.u, w |-> l.w], vSeed, i, StepNo("mac_mul"), z)
    IN
    /\ vPc[i] = "helper_wait"
    /\ MalHas(i, "helper")
    /\ vPc' = [vPc EXCEPT ![i] = "validate"]
    /\ vLocal' = [vLocal EXCEPT ![i].m_result = z, ![i].u = acc.u, ![i].w = acc.w,
                                ![i].macs = Append(@, "mac_mul")]
    /\ vChan' = [vChan EXCEPT ![i] = Tail(@)]
    /\ UNCHANGED <<vIn, vSeed, vCheat, vRes, vOut, vSanity>>
    /\ UNCHANGED <<streamVars, sendVars, mulVars, gateVars, ctxVars, shareVars, serVars, knownVars, netVars, urVars, grVars, leVars, bodyVars, rrtVars, btVars, pcVars, trVars>>

\* A plausible slip: validate is started while the protocol function is
\* still waiting for its peer.
validate_may_start_early(pc) == pc \in {"helper_wait", "validate"}

\* The closure awaits the protocol function before it calls validate.
validate_may_start(pc) == pc = "validate"

\* validate, first round: party i sends its u, w and the left part of its
\* share of r to its right neighbour.
MalValidateSend(i) ==
    LET l == vLocal[i] IN
    /\ validate_may_start(vPc[i])
    /\ vPc' = [vPc EXCEPT ![i] = "propagate_wait"]
    /\ vChan' = MalSendRight(i, [round |-> "propagate", u |-> l.u, w |-> l.w,
                                 r |-> left(l.r_share)])
    /\ UNCHANGED <<vIn, vSeed, vCheat, vLocal, vRes, vOut, vSanity>>
    /\ UNCHANGED <<streamVars, sendVars, mulVars, gateVars, ctxVars, shareVars, serVars, knownVars, netVars, urVars, grVars, leVars, bodyVars, rrtVars, btVars, pcVars, trVars>>

\* validate, second round: with the values of the left neighbour party i
\* holds replicated shares of u and w and knows r; it forms its share of
\* T = u - r * w and sends the left part of it to reveal T.
MalValidateCheck(i) ==
    LET l == vLocal[i]
        got == Head(vChan[i])
        u_share == ShareNew(got.u, l.u)
        w_share == ShareNew(got.w, l.w)
        r == FAdd(FAdd(left(l.r_share), right(l.r_share)), got.r)
        t == sub(u_share, mul(w_share, r))
    IN
    /\ vPc[i] = "propagate_wait"
    /\ MalHas(i, "propagate")
    /\ vPc' = [vPc EXCEPT ![i] = "check_wait"]
    /\ vLocal' = [vLocal EXCEPT ![i].t = t]
    /\ vChan' = MalSendRightTake(i, [round |-> "check", t |-> left(t)])
    /\ UNCHANGED <<vIn, vSeed, vCheat, vRes, vOut, vSanity>>
    /\ UNCHANGED <<streamVars, sendVars, mulVars, gateVars, ctxVars, shareVars, serVars, knownVars, netVars, urVars, grVars, leVars, bodyVars, rrtVars, btVars, pcVars, trVars>>

\* validate, end: T is revealed; validate returns and the closure of the
\* runner unwraps what it returned.
MalValidateFinish(i) ==
    LET l == vLocal[i]
        T == FAdd(FAdd(left(l.t), right(l.t)), Head(vChan[i]).t)
        res == validate_result(T, l.m_result)
        out == runner_unwrap(res, l.m_result, l.r_share)
    IN
    /\ vPc[i] = "check_wait"
    /\ MalHas(i, "check")
    /\ vPc' = [vPc EXCEPT ![i] = IF out.panic THEN "panicked" ELSE "returned"]
    /\ vLocal' = [vLocal EXCEPT ![i].revealed = <<T>>]
    /\ vRes' = [vRes EXCEPT ![i] = res]
    /\ vOut' = [vOut EXCEPT ![i] = out]
    /\ vChan' = [vChan EXCEPT ![i] = Tail(@)]
    /\ UNCHANGED <<vIn, vSeed, vCheat, vSanity>>
    /\ UNCHANGED <<streamVars, sendVars, mulVars, gateVars, ctxVars, shareVars, serVars, knownVars, netVars, urVars, grVars, leVars, bodyVars, rrtVars, btVars, pcVars, trVars>>

\* The transport fails under a party that waits in validate: validate
\* returns the transport error and the closure unwraps it.
MalTransportError(i) ==
    LET res == Err("Transport")
        out == runner_unwrap(res, vLocal[i].m_result, vLocal[i].r_share)
    IN
    /\ vPc[i] \in {"propagate_wait", "check_wait"}
    /\ vPc' = [vPc EXCEPT ![i] = IF out.panic THEN "panicked" ELSE "returned"]
    /\ vRes' = [vRes EXCEPT ![i] = res]
    /\ vOut' = [vOut EXCEPT ![i] = out]
    /\ UNCHANGED <<vIn, vSeed, vCheat, vChan, vLocal, vSanity>>
    /\ UNCHANGED <<streamVars, sendVars, mulVars, gateVars, ctxVars, shareVars, serVars, knownVars, netVars, urVars, grVars, leVars, bodyVars, rrtVars, btVars, pcVars, trVars>>

\* Reconstruct for the shares of the three parties.
reconstruct(shares) ==
    FAdd(FAdd(left(shares[1]), left(shares[2])), left(shares[3]))

\* After the three closures have returned the runner checks rx = r * x on
\* the results with MAC.
MalSanity ==
    LET r == reconstruct([i \in Roles |-> vOut[i].r_share])
        x == reconstruct([i \in Roles |-> vOut[i].m_result.x])
        rx == reconstruct([i \in Roles |-> vOut[i].m_result.rx])
    IN
    /\ vSanity = "pending"
    /\ \A i \in Roles : vPc[i] = "returned"
    /\ vSanity' = IF rx = FMul(r, x) THEN "ok" ELSE "panic"
    /\ UNCHANGED <<vIn, vSeed, vCheat, vPc, vChan, vLocal, vRes, vOut>>
    /\ UNCHANGED <<streamVars, sendVars, mulVars, gateVars, ctxVars, shareVars, serVars, knownVars, netVars, urVars, grVars, leVars, bodyVars, rrtVars, btVars, pcVars, trVars>>

MalNext ==
    \/ \E i \in Roles : MalUpgradeSend(i)
    \/ \E i \in Roles : MalUpgradeRecv(i)
    \/ \E i \in Roles : MalHelperSend(i)
    \/ \E i \in Roles : MalHelperRecv(i)
    \/ \E i \in Roles : MalValidateSend(i)
    \/ \E i \in Roles : MalValidateCheck(i)
    \/ \E i \in Roles : MalValidateFinish(i)
    \/ \E i \in Roles : MalTransportError(i)
    \/ MalSanity

(***************************************************************************)
(* Step/Gate: the compact encoding generated from the steps file, with its *)
(* fixed special-case transitions, next to the descriptive encoding.       *)
(***************************************************************************)

\* Bound on the number of narrows of one gate.
MaxDepth == 2

\* The steps file: one line per narrowed step, a path from the root, in
\* depth-first order (the example of the derive macro).
StepsFile ==
    << <<"run-0", "A1">>,
       <<"run-0", "A1", "B1">>,
       <<"run-0", "A1", "B2">>,
       <<"run-0", "C1">>,
       <<"run-0", "C1", "D1">>,
       <<"run-0", "C1", "D1", "A2">>,
       <<"run-0", "C2">> >>

\* The step names narrowed with: those of the steps file, the special
\* cases, and a name no table knows.
StepNames ==
    {"A1", "A2", "B1", "B2", "C1", "C2", "D1",
     "run-0", "fallback", "upgrade_semi-honest", "unknown"}

\* The module (step type) that defines a step name.
ModuleOf(name) ==
    CASE name \in {"A1", "A2"} -> "StepA"
      [] name \in {"B1", "B2"} -> "StepB"
      [] name \in {"C1", "C2"} -> "StepC"
      [] name = "D1" -> "StepD"
      [] name = "fallback" -> "FallbackStep"
      [] name = "upgrade_semi-honest" -> "UpgradeStep"
      [] OTHER -> "str"

\* ipa_state_transition_map: line i of the file is the step with id i + 1
\* (here lines are counted from 1); its depth is the length of its path and
\* its name the last segment.  The root has id 0 and depth 0.
StepIds == 1 .. Len(StepsFile)
StepDepth(id) == IF id = 0 THEN 0 ELSE Len(StepsFile[id])
StepName(id) == StepsFile[id][Len(StepsFile[id])]
StepPath(id) == StepsFile[id]

\* construct_tree: the parent of a step is found from the step before it,
\* climbing delta + 1 levels when the depth does not grow.
RECURSIVE StepParent(_), StepClimb(_, _)
StepClimb(node, n) == IF n = 0 THEN node ELSE StepClimb(StepParent(node), n - 1)
StepParent(id) ==
    LET last == id - 1
        delta == StepDepth(last) - StepDepth(id)
    IN IF delta < 0 THEN last ELSE StepClimb(last, delta + 1)

\* A plausible slip: the arms are keyed by the name alone.
TableArms_any_state(module, state, name) ==
    {id \in StepIds :
        /\ ModuleOf(StepName(id)) = module
        /\ StepName(id) = name}

\* The arms (previous_state_id, new_state) => new_state_id generated for
\* the impl of a module: the ids of the matching arms.
TableArms(module, state, name) ==
    {id \in StepIds :
        /\ ModuleOf(StepName(id)) = module
        /\ StepParent(id) = state
        /\ StepName(id) = name}
TableModules == {ModuleOf(StepName(id)) : id \in StepIds}

FALLBACK == 65534
UPGRADE_SEMI_HONEST == 65533

\* The outcome of a narrow: a state, or the panic with its message
\* ("cannot narrow with <step> from state <state>").
Narrowed(state) == [panic |-> FALSE, state |-> state]
NarrowPanic(state, step) == [panic |-> TRUE, state |-> state, step |-> step]

\* A plausible slip: the fallback arm returns the other constant.
static_state_map_fallback_as_upgrade(state, step) ==
    CASE step = "run-0" -> Narrowed(0)
      [] step \in {"fallback", "upgrade_semi-honest"} -> Narrowed(UPGRADE_SEMI_HONEST)
      [] step \notin {"run-0", "fallback", "upgrade_semi-honest"}
            /\ state = UPGRADE_SEMI_HONEST -> Narrowed(UPGRADE_SEMI_HONEST)
      [] OTHER -> NarrowPanic(state, step)

\* static_state_map: the special-case transitions, in the order of the
\* match arms.
static_state_map(state, step) ==
    CASE step = "run-0" -> Narrowed(0)
      [] step = "fallback" -> Narrowed(FALLBACK)
      [] step = "upgrade_semi-honest" -> Narrowed(UPGRADE_SEMI_HONEST)
      [] step \notin {"run-0", "fallback", "upgrade_semi-honest"}
            /\ state = UPGRADE_SEMI_HONEST -> Narrowed(UPGRADE_SEMI_HONEST)
      [] OTHER -> NarrowPanic(state, step)

\* A plausible slip: a miss in the table panics at once.
compact_narrow_table_only(state, step) ==
    IF TableArms(ModuleOf(step), state, step) # {}
    THEN Narrowed(CHOOSE id \in TableArms(ModuleOf(step), state, step) :
                      \A o \in TableArms(ModuleOf(step), state, step) : id <= o)
    ELSE NarrowPanic(state, step)

\* compact_narrow with an arm of the table that gives the state it was
\* applied to
compact_narrow_keeps_state(state, step) ==
    IF ModuleOf(step) \in TableModules
          /\ TableArms(ModuleOf(step), state, step) # {}
    THEN Narrowed(state)
    ELSE static_state_map(state, step)

\* StepNarrow for Compact.  The impl generated for a module of the steps
\* file matches (state, name) against its arms, the first arm that matches
\* wins, and falls back to static_state_map; the impls written by hand for
\* the other step types call static_state_map directly.
compact_narrow(state, step) ==
    IF ModuleOf(step) \in TableModules
          /\ TableArms(ModuleOf(step), state, step) # {}
    THEN Narrowed(CHOOSE id \in TableArms(ModuleOf(step), state, step) :
                      \A o \in TableArms(ModuleOf(step), state, step) : id <= o)
    ELSE static_state_map(state, step)

\* The outcome of as_ref: a string (a path of names), or a panic.
Str(path) == [panic |-> FALSE, str |-> path]
AsRefPanic == [panic |-> TRUE]

\* static_reverse_state_map
static_reverse_state_map(state) ==
    CASE state = 0 -> Str(<<"run-0">>)
      [] state = 65534 -> Str(<<"upgrade_semi-honest">>)
      [] OTHER -> AsRefPanic

\* AsRef<str> for Compact: the path of the step with this id in the steps
\* file, else static_reverse_state_map.
compact_as_ref(state) ==
    IF state \in StepIds
    THEN Str(StepPath(state))
    ELSE static_reverse_state_map(state)

\* The descriptive encoding concatenates the names.
descriptive_narrow(gate, step) == Append(gate, step)
descriptive_as_ref(gate) == Str(gate)

Builders == {1, 2}
NoDiag == [called |-> FALSE]

\* Both builders start from the root gate of a query.
GateInit ==
    /\ gSeq = [b \in Builders |-> <<>>]
    /\ gCompact = [b \in Builders |-> Narrowed(0)]
    /\ gDesc = [b \in Builders |-> <<"run-0">>]
    /\ gParent = [b \in Builders |-> 0]
    /\ gDiag = [b \in Builders |-> NoDiag]

GateIdle == GateInit

\* Builder b narrows its gate by a step, in both encodings.  A panic of the
\* compact narrow leaves the builder without a gate.
Narrow(b, step) ==
    LET res == compact_narrow(gCompact[b].state, step) IN
    /\ ~gCompact[b].panic
    /\ Len(gSeq[b]) < MaxDepth
    /\ gParent' = [gParent EXCEPT ![b] = gCompact[b].state]
    /\ gDiag' = [gDiag EXCEPT ![b] = NoDiag]
    /\ gCompact' = [gCompact EXCEPT ![b] = res]
    /\ IF res.panic
       THEN UNCHANGED <<gSeq, gDesc>>
       ELSE /\ gSeq' = [gSeq EXCEPT ![b] = Append(@, step)]
            /\ gSeq' = [gSeq EXCEPT ![b] = Append(@, step)]
            /\ gDesc' = [gDesc EXCEPT ![b] = descriptive_narrow(@, step)]
    /\ UNCHANGED <<streamVars, sendVars, mulVars, malVars, ctxVars, shareVars, serVars, knownVars, netVars, urVars, grVars, leVars, bodyVars, rrtVars, btVars, pcVars, trVars>>

\* Builder b asks both of its gates for their diagnostic string.
AsRef(b) ==
    /\ ~gCompact[b].panic
    /\ ~gDiag[b].called
    /\ gDiag' = [gDiag EXCEPT ![b] =
                    [called |-> TRUE,
                     compact |-> compact_as_ref(gCompact[b].state),
                     descriptive |-> descriptive_as_ref(gDesc[b])]]
    /\ UNCHANGED <<gSeq, gCompact, gDesc, gParent>>
    /\ UNCHANGED <<streamVars, sendVars, mulVars, malVars, ctxVars, shareVars, serVars, knownVars, netVars, urVars, grVars, leVars, bodyVars, rrtVars, btVars, pcVars, trVars>>

GateNext ==
    \/ \E b \in Builders, step \in StepNames : Narrow(b, step)
    \/ \E b \in Builders : AsRef(b)

(***************************************************************************)
(* Contexts: SemiHonestContext of protocol/context/semi_honest.rs          *)
(***************************************************************************)

\* How many contexts one run derives.
MaxContexts == 5

\* The names contexts are narrowed with.
CtxSteps == {"a", "b"}

\* The record counts set_total_records is called with.
CtxTotals == 1 .. 2

\* TotalRecords (its declaration is not among the sources).
Unspecified == [kind |-> "Unspecified"]
Specified(n) == [kind |-> "Specified", n |-> n]

\* TotalRecords::overwrite.
overwrite(total_records, value) == value

\* ContextInner::new(participant, gateway): the handles of one party.
ContextInner(role) == [prss |-> role, gateway |-> role]

\* SemiHonestContext::new_complete.
new_complete(role, step, total_records) ==
    [inner |-> ContextInner(role), step |-> step,
     total_records |-> total_records]

\* Context::role of SemiHonestContext: inner.gateway.role().
ctx_role(ctx) == ctx.inner.gateway

\* What narrow would be if it started the child from a fresh record count.
narrow_resets_total_records(ctx, step) ==
    [inner |-> ctx.inner,
     step |-> descriptive_narrow(ctx.step, step),
     total_records |-> Unspecified]

\* Context::narrow of SemiHonestContext.
narrow(ctx, step) ==
    [inner |-> ctx.inner,
     step |-> descriptive_narrow(ctx.step, step),
     total_records |-> ctx.total_records]

\* Context::set_total_records of SemiHonestContext.
set_total_records(ctx, total_records) ==
    [inner |-> ctx.inner,
     step |-> ctx.step,
     total_records |-> overwrite(ctx.total_records, Specified(total_records))]

\* A context the run holds, with how it was made (history).
Held(ctx, parent, op, arg) ==
    [ctx |-> ctx, parent |-> parent, op |-> op, arg |-> arg]

\* Two root contexts, of two parties: SemiHonestContext::new and
\* SemiHonestContext::new_with_total_records.
CtxInit ==
    cCtx = << Held(new_complete(1, <<>>, Unspecified), 0, "new", "-"),
              Held(new_complete(2, <<>>, Specified(1)), 0, "new", "-") >>

CtxIdle == CtxInit

\* Some protocol calls narrow on the context at position p (a root or a
\* child) and keeps the child next to it.
CtxNarrow(p, step) ==
    /\ Len(cCtx) < MaxContexts
    /\ cCtx' = Append(cCtx, Held(narrow(cCtx[p].ctx, step), p, "narrow", step))
    /\ UNCHANGED <<streamVars, sendVars, mulVars, malVars, gateVars, shareVars, serVars, knownVars, netVars, urVars, grVars, leVars, bodyVars, rrtVars, btVars, pcVars, trVars>>

\* Some protocol calls set_total_records on the context at position p.
CtxSetTotalRecords(p, n) ==
    /\ Len(cCtx) < MaxContexts
    /\ cCtx' = Append(cCtx, Held(set_total_records(cCtx[p].ctx, n), p,
                                 "set_total_records", "-"))
    /\ UNCHANGED <<streamVars, sendVars, mulVars, malVars, gateVars, shareVars, serVars, knownVars, netVars, urVars, grVars, leVars, bodyVars, rrtVars, btVars, pcVars, trVars>>

CtxNext ==
    \/ \E p \in 1 .. Len(cCtx), step \in CtxSteps : CtxNarrow(p, step)
    \/ \E p \in 1 .. Len(cCtx), n \in CtxTotals : CtxSetTotalRecords(p, n)

(***************************************************************************)
(* Local arithmetic on replicated shares: Add, Sub, Neg and Mul by a       *)
(* scalar of secret_sharing/replicated/semi_honest/additive_share.rs       *)
(***************************************************************************)

\* How many operations are applied in a row.
MaxOps == 2

\* The additive parts the tests split their values into.
TestParts ==
    { <<0, 0, 0>>, <<1, 0, 0>>, <<0, 1, 0>>, <<0, 0, 1>>,
      <<1, 3, 5>>, <<10, 0, 2>> }

\* The public scalars shares are multiplied by.
TestScalars == {0, 2, PRIME - 1}

\* Add for &AdditiveShare.
add(a, b) == ShareNew(FAdd(left(a), left(b)), FAdd(right(a), right(b)))

\* What neg would be if it negated the left component only.
neg_left_only(a) == ShareNew(FNeg(left(a)), right(a))

\* Neg for &AdditiveShare.
neg(a) == ShareNew(FNeg(left(a)), FNeg(right(a)))

\* What multiplication by a scalar would be if it added the scalar.
mul_scalar_adds(a, k) == ShareNew(FAdd(left(a), k), FAdd(right(a), k))

\* Mul<&V> for &AdditiveShare, as the tests call it.
mul_scalar(a, k) == mul(a, k)

\* No operation applied yet.
NoOp == [op |-> "none"]

\* What the three parties did last: each applied op to its own share.
Applied(op, before, operand, scalar) ==
    [op |-> op, before |-> before, operand |-> operand, scalar |-> scalar]

ShareInit ==
    /\ \E p \in TestParts : shShares = secret_share(p[1], p[2], p[3])
    /\ shLast = NoOp
    /\ shOps = 0

ShareIdle ==
    /\ shShares = secret_share(0, 0, 0)
    /\ shLast = NoOp
    /\ shOps = 0

\* res_i = a_i + &b_i at each party.
ShareAdd(p) ==
    LET b == secret_share(p[1], p[2], p[3])
    IN  /\ shOps < MaxOps
        /\ shShares' = [i \in Roles |-> add(shShares[i], b[i])]
        /\ shLast' = Applied("add", shShares, b, 0)
        /\ shOps' = shOps + 1
        /\ UNCHANGED <<streamVars, sendVars, mulVars, malVars, gateVars, ctxVars, serVars, knownVars, netVars, urVars, grVars, leVars, bodyVars, rrtVars, btVars, pcVars, trVars>>

\* res_i = a_i - &b_i at each party.
ShareSub(p) ==
    LET b == secret_share(p[1], p[2], p[3])
    IN  /\ shOps < MaxOps
        /\ shShares' = [i \in Roles |-> sub(shShares[i], b[i])]
        /\ shLast' = Applied("sub", shShares, b, 0)
        /\ shOps' = shOps + 1
        /\ UNCHANGED <<streamVars, sendVars, mulVars, malVars, gateVars, ctxVars, serVars, knownVars, netVars, urVars, grVars, leVars, bodyVars, rrtVars, btVars, pcVars, trVars>>

\* res_i = -a_i at each party.
ShareNeg ==
    /\ shOps < MaxOps
    /\ shShares' = [i \in Roles |-> neg(shShares[i])]
    /\ shLast' = Applied("neg", shShares, shShares, 0)
    /\ shOps' = shOps + 1
    /\ UNCHANGED <<streamVars, sendVars, mulVars, malVars, gateVars, ctxVars, serVars, knownVars, netVars, urVars, grVars, leVars, bodyVars, rrtVars, btVars, pcVars, trVars>>

\* res_i = a_i * c at each party.
ShareMul(c) ==
    /\ shOps < MaxOps
    /\ shShares' = [i \in Roles |-> mul_scalar(shShares[i], c)]
    /\ shLast' = Applied("mul", shShares, shShares, c)
    /\ shOps' = shOps + 1
    /\ UNCHANGED <<streamVars, sendVars, mulVars, malVars, gateVars, ctxVars, serVars, knownVars, netVars, urVars, grVars, leVars, bodyVars, rrtVars, btVars, pcVars, trVars>>

ShareNext ==
    \/ \E p \in TestParts : ShareAdd(p)
    \/ \E p \in TestParts : ShareSub(p)
    \/ ShareNeg
    \/ \E c \in TestScalars : ShareMul(c)

(***************************************************************************)
(* Serializable for AdditiveShare and AdditiveShare::from_byte_slice       *)
(***************************************************************************)

\* How many shares are written to one buffer.
MaxShares == 2

\* V::Size of a field of 32 bits: the width of one component in bytes.
VSize == 4

\* Field elements of 32 bits whose bytes tell the positions apart.
SerValues == {0, 1, 258, 16777221}

\* Serializable::serialize of a field element: its bytes, lowest first.
v_serialize(v) == [k \in 1 .. VSize |-> (v \div (256 ^ (k - 1))) % 256]

\* Serializable::deserialize of a field element.
RECURSIVE v_deserialize(_)
v_deserialize(buf) ==
    IF buf = <<>> THEN 0 ELSE Head(buf) + 256 * v_deserialize(Tail(buf))

\* <AdditiveShare<V> as Serializable>::Size
ShareSize == VSize + VSize

\* Serializable::serialize for AdditiveShare: left, then right.
serialize(share) == v_serialize(left(share)) \o v_serialize(right(share))

\* What deserialize would be if it read the right component first.
deserialize_right_first(buf) ==
    ShareNew(v_deserialize(SubSeq(buf, VSize + 1, Len(buf))),
             v_deserialize(SubSeq(buf, 1, VSize)))

\* Serializable::deserialize for AdditiveShare.
deserialize(buf) ==
    ShareNew(v_deserialize(SubSeq(buf, 1, VSize)),
             v_deserialize(SubSeq(buf, VSize + 1, Len(buf))))

\* slice::chunks(n): pieces of n bytes, the last one shorter if the length
\* is not a multiple of n.
RECURSIVE chunks(_, _)
chunks(from, n) ==
    IF from = <<>> THEN <<>>
    ELSE IF Len(from) <= n THEN <<from>>
    ELSE <<SubSeq(from, 1, n)>> \o chunks(SubSeq(from, n + 1, Len(from)), n)

\* AdditiveShare::from_byte_slice.
from_byte_slice(from) ==
    LET pieces == chunks(from, ShareSize)
    IN  [k \in 1 .. Len(pieces) |-> deserialize(pieces[k])]

\* Nothing decoded yet.
NotDecoded == [done |-> FALSE]
Decoded(shares) == [done |-> TRUE, shares |-> shares]

SerInit ==
    /\ serIn = <<>>
    /\ serBuf = <<>>
    /\ serOut = NotDecoded

SerIdle == SerInit

\* The next share is serialized behind the ones already in the buffer.
SerWrite(l, r) ==
    /\ ~serOut.done
    /\ Len(serIn) < MaxShares
    /\ serIn' = Append(serIn, ShareNew(l, r))
    /\ serBuf' = serBuf \o serialize(ShareNew(l, r))
    /\ UNCHANGED serOut
    /\ UNCHANGED <<streamVars, sendVars, mulVars, malVars, gateVars, ctxVars, shareVars, knownVars, netVars, urVars, grVars, leVars, bodyVars, rrtVars, btVars, pcVars, trVars>>

\* The buffer is decoded and the iterator collected.
SerRead ==
    /\ ~serOut.done
    /\ serOut' = Decoded(from_byte_slice(serBuf))
    /\ UNCHANGED <<serIn, serBuf>>
    /\ UNCHANGED <<streamVars, sendVars, mulVars, malVars, gateVars, ctxVars, shareVars, knownVars, netVars, urVars, grVars, leVars, bodyVars, rrtVars, btVars, pcVars, trVars>>

SerNext ==
    \/ \E l \in SerValues, r \in SerValues : SerWrite(l, r)
    \/ SerRead

(***************************************************************************)
(* share_known_value of protocol/basics/share_known_value.rs, run by the   *)
(* three parties of Runner::semi_honest                                    *)
(***************************************************************************)

\* What share_known_value would be if H3 put the value on the left.
share_known_value_h3_left(role, value) ==
    CASE role = 1 -> ShareNew(value, 0)
      [] role = 2 -> ShareNew(0, 0)
      [] role = 3 -> ShareNew(value, 0)

\* ShareKnownValue::share_known_value for Replicated, by ctx.role()
\* (1, 2, 3 for H1, H2, H3).
share_known_value(role, value) ==
    CASE role = 1 -> ShareNew(value, 0)
      [] role = 2 -> ShareNew(0, 0)
      [] role = 3 -> ShareNew(0, value)

\* The closure of a party has not returned.
NoShare == <<>>

\* The public value a, the share each closure returned and the messages the
\* closures sent.
KnownRun(value, shares, sent) ==
    [value |-> value, shares |-> shares, sent |-> sent]

KnownInit ==
    \E a \in Field : known = KnownRun(a, [i \in Roles |-> NoShare], 0)

KnownIdle == known = KnownRun(0, [i \in Roles |-> NoShare], 0)

\* The closure of party i runs to its end: it reads the role of its context
\* and builds its share; it sends and awaits nothing.
KnownShare(i) ==
    /\ known.shares[i] = NoShare
    /\ known' = [known EXCEPT !.shares[i] = share_known_value(i, known.value)]
    /\ UNCHANGED <<streamVars, sendVars, mulVars, malVars, gateVars, ctxVars, shareVars, serVars, netVars, urVars, grVars, leVars, bodyVars, rrtVars, btVars, pcVars, trVars>>

KnownNext == \E i \in Roles : KnownShare(i)

(***************************************************************************)
(* Sending the records of a channel: RoleResolvingTransport::send of       *)
(* helpers/gateway/transport.rs over Transport::send of net/transport.rs   *)
(***************************************************************************)

\* How many channels one run sends.
MaxSends == 2

\* self.inner.identity() of the sending helper; RoleAssignment::identity
\* maps role i to helper i.
SelfIdentity == 1
identity(role) == role

\* What the HTTP client meets: the request cannot be built, the connection
\* or the body stream fails, the peer answers with an error status, or the
\* records are streamed.
Outcomes == {"bad_request", "io_error", "bad_status", "streamed"}

\* MpcHelperClient::resp_ok on the awaited response.
resp_ok(outcome) == IF outcome = "streamed" THEN "Ok" ELSE "Err"

\* The task spawned by send: resp_future ... .await.expect("failed to
\* stream records").
spawned_task(outcome) == IF resp_ok(outcome) = "Ok" THEN "finished" ELSE "panicked"

\* Transport::send for Arc<HttpTransport>, arm RouteId::Records: what the
\* caller gets and whether a task was spawned.  Only a request that cannot
\* be built returns through the ? operator.
http_send(outcome) ==
    IF outcome = "bad_request"
    THEN [result |-> "Err", task |-> "none", requests |-> 0]
    ELSE [result |-> "Ok", task |-> "running", requests |-> 1]

\* RoleResolvingTransport::send.
role_resolving_send(role, outcome) ==
    IF identity(role) = SelfIdentity
    THEN [result |-> "panic", task |-> "none", requests |-> 0]
    ELSE http_send(outcome)

\* One call of send, the fate of its request and what came of both.
NetCall(role, outcome, res) ==
    [role |-> role, outcome |-> outcome, result |-> res.result,
     task |-> res.task, requests |-> res.requests]

NetInit == netCalls = <<>>

NetIdle == NetInit

\* The gateway sends the stream of a channel to the helper of `role`; the
\* call returns.
NetSend(role, outcome) ==
    /\ Len(netCalls) < MaxSends
    /\ netCalls' = Append(netCalls,
                          NetCall(role, outcome, role_resolving_send(role, outcome)))
    /\ UNCHANGED <<streamVars, sendVars, mulVars, malVars, gateVars, ctxVars, shareVars, serVars, knownVars, urVars, grVars, leVars, bodyVars, rrtVars, btVars, pcVars, trVars>>

\* The response of the request of call k arrives, or the request fails, in
\* the spawned task.
NetTaskDone(k) ==
    /\ netCalls[k].task = "running"
    /\ netCalls' = [netCalls EXCEPT ![k].task = spawned_task(netCalls[k].outcome)]
    /\ UNCHANGED <<streamVars, sendVars, mulVars, malVars, gateVars, ctxVars, shareVars, serVars, knownVars, urVars, grVars, leVars, bodyVars, rrtVars, btVars, pcVars, trVars>>

NetNext ==
    \/ \E role \in Roles, outcome \in Outcomes : NetSend(role, outcome)
    \/ \E k \in 1 .. Len(netCalls) : NetTaskDone(k)

(***************************************************************************)
(* The receiving end of a channel: ReceivingEnd::receive of                *)
(* helpers/gateway/receive.rs over the UnorderedReceiver that              *)
(* RoleResolvingTransport::receive builds                                  *)
(***************************************************************************)

\* Records the peer sends on the channel beyond one window.
MaxBeyond == 2

\* The largest chunk the inbound stream yields, in bytes.
MaxChunk == 3

\* M::Size: the width of a message in bytes.
MsgSize == 2

\* UnorderedReceiver::new(stream, self.config.active_work()): the capacity
\* of the receiver is the active work of the gateway.
ur_capacity == ActiveWork

\* The records of the inbound stream and its bytes, each byte different.
UrRecordIds == 0 .. (ur_capacity + MaxBeyond - 1)
UrStreamLen == (ur_capacity + MaxBeyond) * MsgSize
UrStream == [k \in 1 .. UrStreamLen |-> k]

\* The bytes of record i in a buffer that holds the stream from its start.
record_bytes(buf, i) == SubSeq(buf, i * MsgSize + 1, (i + 1) * MsgSize)

\* What a poll of recv gives.
UrPending == [kind |-> "Pending"]
UrOk(bytes) == [kind |-> "Ok", bytes |-> bytes]
UrErr(why) == [kind |-> "Err", why |-> why]

\* UnorderedReceiver::recv(i), polled: a record already consumed or beyond
\* the active window is an error; the next record is read once its bytes
\* are there; any other record of the window waits.
ur_recv(u, i) ==
    CASE i < u.next -> UrErr("consumed")
      [] i >= u.next + ur_capacity -> UrErr("outside")
      [] i = u.next /\ Len(u.buf) >= (i + 1) * MsgSize -> UrOk(record_bytes(u.buf, i))
      [] OTHER -> UrPending

\* What receive would be if it answered an error with an empty message.
receive_default_on_error(polled) ==
    IF polled.kind = "Err" THEN UrOk(<<0, 0>>) ELSE polled

\* What receive would be if it kept the first byte of the message only.
receive_truncated(polled) ==
    IF polled.kind = "Ok" THEN UrOk(<<Head(polled.bytes), 0>>) ELSE polled

\* ReceivingEnd::receive: self.unordered_rx.recv(record_id).await?, Ok(v).
receive(polled) ==
    CASE polled.kind = "Err" -> UrErr(polled.why)
      [] polled.kind = "Ok" -> UrOk(polled.bytes)
      [] OTHER -> UrPending

\* A request nobody made, one that waits, one that resolved.
ReqNone == [state |-> "none"]
ReqPending == [state |-> "pending"]
ReqResolved(bytes) == [state |-> "resolved", bytes |-> bytes]

\* The receiver: the bytes that arrived, the next record to read, the
\* request for each record and the requests that were refused.
UrInit ==
    ur = [buf |-> <<>>, next |-> 0,
          req |-> [i \in UrRecordIds |-> ReqNone],
          refused |-> {}]

UrIdle == UrInit

\* The inbound stream yields its next chunk, of n bytes.
UrArrive(n) ==
    /\ Len(ur.buf) + n <= UrStreamLen
    /\ ur' = [ur EXCEPT !.buf = SubSeq(UrStream, 1, Len(ur.buf) + n)]
    /\ UNCHANGED <<streamVars, sendVars, mulVars, malVars, gateVars, ctxVars, shareVars, serVars, knownVars, netVars, grVars, leVars, bodyVars, rrtVars, btVars, pcVars, trVars>>

\* A task calls receive(i), or is polled again while it waits for record i.
UrReceive(i) ==
    LET res == receive(ur_recv(ur, i)) IN
    /\ ur' = CASE res.kind = "Err" ->
                    [ur EXCEPT !.refused = @ \cup {[id |-> i, result |-> res]}]
               [] res.kind = "Ok" ->
                    [ur EXCEPT !.req[i] = ReqResolved(res.bytes), !.next = @ + 1]
               [] OTHER ->
                    [ur EXCEPT !.req[i] = ReqPending]
    /\ UNCHANGED <<streamVars, sendVars, mulVars, malVars, gateVars, ctxVars, shareVars, serVars, knownVars, netVars, grVars, leVars, bodyVars, rrtVars, btVars, pcVars, trVars>>

\* The task that waits for record i is woken and polled.
UrPoll(i) ==
    /\ ur.req[i].state = "pending"
    /\ UrReceive(i)

UrNext ==
    \/ \E n \in 1 .. MaxChunk : UrArrive(n)
    \/ \E i \in UrRecordIds : UrReceive(i)

(***************************************************************************)
(* GatewayReceivers::get_or_create of helpers/gateway/receive.rs, called   *)
(* by tasks that run on different threads                                  *)
(***************************************************************************)

\* The tasks that ask for a receiver and the channels they ask for.
Callers == 1 .. 3
Channels == {"c1", "c2"}

\* No receiver: DashMap::get found none / the caller holds none.
NoReceiver == 0

\* receivers.get(channel_id): the receiver of the map, cloned, or none.
\* The guard of the map is released when get returns None.
gr_get(map, channel) == map[channel]

\* ctr(): the closure asks the transport for the stream of the channel and
\* wraps it in a new receiver, here numbered in the order of creation.
gr_ctr(made) == Len(made) + 1

\* receivers.insert(channel_id.clone(), stream.clone()): replaces what the
\* map holds for the channel.
gr_insert(map, channel, receiver) == [map EXCEPT ![channel] = receiver]

\* A caller outside get_or_create.
GrOut == [pc |-> "out", channel |-> "-", receiver |-> NoReceiver]

GrInit ==
    gr = [map |-> [ch \in Channels |-> NoReceiver],
          made |-> <<>>,
          caller |-> [c \in Callers |-> GrOut]]

GrIdle == GrInit

\* Caller c enters get_or_create(channel, ctr) and looks the channel up:
\* if let Some(recv) = receivers.get(channel_id) { recv.clone() }.
GrGet(c, channel) ==
    LET found == gr_get(gr.map, channel) IN
    /\ gr.caller[c].pc = "out"
    /\ gr' = [gr EXCEPT !.caller[c] =
                 IF found # NoReceiver
                 THEN [pc |-> "returned", channel |-> channel, receiver |-> found]
                 ELSE [pc |-> "vacant", channel |-> channel, receiver |-> NoReceiver]]
    /\ UNCHANGED <<streamVars, sendVars, mulVars, malVars, gateVars, ctxVars, shareVars, serVars, knownVars, netVars, urVars, leVars, bodyVars, rrtVars, btVars, pcVars, trVars>>

\* Caller c, in the else branch: let stream = ctr().
GrCtr(c) ==
    LET stream == gr_ctr(gr.made) IN
    /\ gr.caller[c].pc = "vacant"
    /\ gr' = [gr EXCEPT !.made = Append(@, gr.caller[c].channel),
                        !.caller[c].pc = "made",
                        !.caller[c].receiver = stream]
    /\ UNCHANGED <<streamVars, sendVars, mulVars, malVars, gateVars, ctxVars, shareVars, serVars, knownVars, netVars, urVars, leVars, bodyVars, rrtVars, btVars, pcVars, trVars>>

\* Caller c inserts its receiver and returns it.
GrInsert(c) ==
    /\ gr.caller[c].pc = "made"
    /\ gr' = [gr EXCEPT !.map = gr_insert(@, gr.caller[c].channel, gr.caller[c].receiver),
                        !.caller[c].pc = "returned"]
    /\ UNCHANGED <<streamVars, sendVars, mulVars, malVars, gateVars, ctxVars, shareVars, serVars, knownVars, netVars, urVars, leVars, bodyVars, rrtVars, btVars, pcVars, trVars>>

GrNext ==
    \/ \E c \in Callers, channel \in Channels : GrGet(c, channel)
    \/ \E c \in Callers : GrCtr(c)
    \/ \E c \in Callers : GrInsert(c)

(***************************************************************************)
(* LogErrors: the adapter between the body stream of a request and the     *)
(* records stream the transport hands to the collection.                   *)
(***************************************************************************)

\* Bound on the items the inner stream yields before it ends.
MaxItems == 3
\* Polls of the adapter: one per item, and polls after the end.
MaxPolls == MaxItems + 2

\* The chunks of the model (T: Into<Vec<u8>>, here Bytes).
LeChunks == {<<1>>, <<2, 3>>}
\* What polling the inner stream gives.
InnerPending == [tag |-> "pending", chunk |-> <<>>]
InnerOk(chunk) == [tag |-> "ok", chunk |-> chunk]
InnerErr == [tag |-> "err", chunk |-> <<>>]
InnerNone == [tag |-> "none", chunk |-> <<>>]
InnerItems == {InnerOk(chunk) : chunk \in LeChunks} \cup {InnerErr}

\* What polling the adapter gives: Poll<Option<Vec<u8>>>.
LePending == [tag |-> "pending", bytes |-> <<>>]
LeSome(bytes) == [tag |-> "some", bytes |-> bytes]
LeNone == [tag |-> "none", bytes |-> <<>>]

\* chunk.into(): the bytes of the chunk as a Vec<u8>
into_vec(chunk) == [k \in 1 .. Len(chunk) |-> chunk[k]]

\* LogErrors::poll_next, given what the inner stream answered
poll_next(polled) ==
    CASE polled.tag = "pending" -> [ret |-> LePending, logged |-> FALSE]
      [] polled.tag = "ok" -> [ret |-> LeSome(into_vec(polled.chunk)), logged |-> FALSE]
      [] polled.tag = "err" -> [ret |-> LeNone, logged |-> TRUE]
      [] OTHER -> [ret |-> LeNone, logged |-> FALSE]

\* The inner stream: the items it has left; it ends when none is left.
inner_poll_next(items) ==
    IF items = <<>> THEN InnerNone ELSE Head(items)

RECURSIVE ItemSeqs(_)
ItemSeqs(n) ==
    IF n = 0 THEN {<<>>}
    ELSE LET shorter == ItemSeqs(n - 1) IN
         shorter \cup {Append(s, item) : s \in {t \in shorter : Len(t) = n - 1},
                                         item \in InnerItems}

\* LogErrors::new(inner).  src is the inner stream as created, inner what
\* it has left, polled what it has answered and out what the adapter has
\* answered, poll by poll.
LeInit ==
    \E src \in ItemSeqs(MaxItems) :
        le = [src |-> src, inner |-> src, polled |-> <<>>, out |-> <<>>, logged |-> 0]

LeIdle ==
    le = [src |-> <<>>, inner |-> <<>>, polled |-> <<>>, out |-> <<>>, logged |-> 0]

\* poll_next while the inner stream has nothing ready.
LePollPending ==
    LET res == poll_next(InnerPending) IN
    /\ Len(le.out) < MaxPolls
    /\ le.inner # <<>>
    /\ le' = [le EXCEPT !.polled = Append(@, InnerPending),
                        !.out = Append(@, res.ret)]
    /\ UNCHANGED <<streamVars, sendVars, mulVars, malVars, gateVars, ctxVars, shareVars, serVars, knownVars, netVars, urVars, grVars, bodyVars, rrtVars, btVars, pcVars, trVars>>

\* poll_next while the inner stream has an item or its end ready.
LePollReady ==
    LET polled == inner_poll_next(le.inner)
        res == poll_next(polled)
    IN
    /\ Len(le.out) < MaxPolls
    /\ le' = [le EXCEPT !.inner = IF @ = <<>> THEN @ ELSE Tail(@),
                        !.polled = Append(@, polled),
                        !.out = Append(@, res.ret),
                        !.logged = IF res.logged THEN @ + 1 ELSE @]
    /\ UNCHANGED <<streamVars, sendVars, mulVars, malVars, gateVars, ctxVars, shareVars, serVars, knownVars, netVars, urVars, grVars, bodyVars, rrtVars, btVars, pcVars, trVars>>

LeNext ==
    \/ LePollPending
    \/ LePollReady

(***************************************************************************)
(* The bodies of the step requests: HttpTransport::receive_stream wraps    *)
(* the body of a request in LogErrors and registers it; the receiver that  *)
(* took the stream polls it.                                               *)
(***************************************************************************)

\* Bound on the chunks that arrive on one body.
MaxArrive == 2

\* No poll of a body yet.
NoBodyPoll == [by |-> "none", ret |-> LePending, stream |-> NoStream, unread |-> FALSE]

\* The transport before any request: of every stream the chunks that have
\* arrived on its body and how many of them were read, of every receiver
\* what its polls yielded, and the last poll (history).
BodyInit ==
    body = [arrived |-> [s \in 1 .. MaxStreams |-> <<>>],
            read |-> [s \in 1 .. MaxStreams |-> 0],
            out |-> [r \in Receivers |-> <<>>],
            last |-> NoBodyPoll]

BodyIdle == BodyInit

(***************************************************************************)
(* RoleResolvingTransport of helpers/gateway/transport.rs: the adapter     *)
(* of a query that resolves the role of a channel to a helper identity     *)
(***************************************************************************)

\* How many calls one run makes on the adapter.
MaxCalls == 2

HelperIdentities == 1 .. 3
\* RoleAssignment: which helper plays which role in the query.
RoleAssignments ==
    {f \in [Roles -> HelperIdentities] : \A r, q \in Roles : r # q => f[r] # f[q]}

\* Nothing was passed to the transport underneath.
NoInnerCall == [op |-> "none", peer |-> 0, route |-> <<>>]

\* RoleResolvingTransport::send with the role taken for the identity
rrt_send_unresolved(roles, inner_identity, query_id, channel_id) ==
    IF channel_id.role = inner_identity
    THEN [panic |-> TRUE, inner |-> NoInnerCall]
    ELSE [panic |-> FALSE,
          inner |-> [op |-> "send", peer |-> channel_id.role,
                     route |-> <<"Records", query_id, channel_id.step>>]]

\* RoleResolvingTransport::send
rrt_send(roles, inner_identity, query_id, channel_id) ==
    LET dest_identity == roles[channel_id.role] IN
    IF dest_identity = inner_identity
    THEN [panic |-> TRUE, inner |-> NoInnerCall]
    ELSE [panic |-> FALSE,
          inner |-> [op |-> "send", peer |-> dest_identity,
                     route |-> <<"Records", query_id, channel_id.step>>]]

\* RoleResolvingTransport::receive without its assertion
rrt_receive_unchecked(roles, inner_identity, query_id, channel_id) ==
    [panic |-> FALSE,
     inner |-> [op |-> "receive", peer |-> roles[channel_id.role],
                route |-> <<query_id, channel_id.step>>]]

\* RoleResolvingTransport::receive
rrt_receive(roles, inner_identity, query_id, channel_id) ==
    LET peer == roles[channel_id.role] IN
    IF peer = inner_identity
    THEN [panic |-> TRUE, inner |-> NoInnerCall]
    ELSE [panic |-> FALSE,
          inner |-> [op |-> "receive", peer |-> peer,
                     route |-> <<query_id, channel_id.step>>]]

\* The adapter of query q1 on a helper, with the roles as assigned; calls
\* is the history of the calls made on it and of what reached the
\* transport underneath.
RrtInit ==
    \E roles \in RoleAssignments, inner_identity \in HelperIdentities :
        rrt = [roles |-> roles, identity |-> inner_identity,
               query_id |-> "q1", calls |-> <<>>]

RrtIdle ==
    rrt = [roles |-> [r \in Roles |-> r], identity |-> 1,
           query_id |-> "q1", calls |-> <<>>]

\* The gateway sends the stream of the channel (role, step).
RrtSend(role, step) ==
    LET channel_id == [role |-> role, step |-> step]
        res == rrt_send(rrt.roles, rrt.identity, rrt.query_id, channel_id)
    IN
    /\ Len(rrt.calls) < MaxCalls
    /\ rrt' = [rrt EXCEPT !.calls = Append(@, [op |-> "send", channel_id |-> channel_id,
                                               panic |-> res.panic, inner |-> res.inner])]
    /\ UNCHANGED <<streamVars, sendVars, mulVars, malVars, gateVars, ctxVars, shareVars, serVars, knownVars, netVars, urVars, grVars, leVars, bodyVars, btVars, pcVars, trVars>>

\* The gateway asks for the receiver of the channel (role, step).
RrtReceive(role, step) ==
    LET channel_id == [role |-> role, step |-> step]
        res == rrt_receive(rrt.roles, rrt.identity, rrt.query_id, channel_id)
    IN
    /\ Len(rrt.calls) < MaxCalls
    /\ rrt' = [rrt EXCEPT !.calls = Append(@, [op |-> "receive", channel_id |-> channel_id,
                                               panic |-> res.panic, inner |-> res.inner])]
    /\ UNCHANGED <<streamVars, sendVars, mulVars, malVars, gateVars, ctxVars, shareVars, serVars, knownVars, netVars, urVars, grVars, leVars, bodyVars, btVars, pcVars, trVars>>

RrtNext ==
    \/ \E role \in Roles, step \in Gates : RrtSend(role, step)
    \/ \E role \in Roles, step \in Gates : RrtReceive(role, step)

(***************************************************************************)
(* prefix_or_binary_tree_style and do_the_binary_tree_thing of             *)
(* protocol/attribution/mod.rs, on the values the shares stand for: a      *)
(* multiplication gives the product, and is recorded with the context and  *)
(* the record id it was issued with.                                       *)
(***************************************************************************)

\* Bound on the lengths of the two input slices (0 .. MaxRows).
MaxRows == 5

\* The width of usize in bits and with it the length of the DEPTH table of
\* InteractionPatternStep (64 in the code), scaled down together.
UsizeBits == 3

BtFns == {"prefix_or_binary_tree_style", "do_the_binary_tree_thing"}

\* usize::checked_mul(2): None (0 here) on overflow
checked_mul2(v) == IF 2 * v >= 2 ^ UsizeBits THEN 0 ELSE 2 * v

\* usize::saturating_sub
saturating_sub(a, b) == IF a >= b THEN a - b ELSE 0

\* let end = num_rows - step_size
end_of(num_rows, step_size) == num_rows - step_size
\* let next_end = usize::saturating_sub(num_rows, 2 * step_size)
next_end_of(num_rows, step_size) == saturating_sub(num_rows, 2 * step_size)

\* new_stop_bit_ctx declared with as many records as the credit context
stop_bit_total_as_credit(num_rows, step_size) == end_of(num_rows, step_size)

\* .set_total_records(next_end) of new_stop_bit_ctx
stop_bit_total(num_rows, step_size) == next_end_of(num_rows, step_size)

\* The update taking the place of the value
apply_value_update_overwrite(value, value_update) == value_update

\* values[i] += &value_update
apply_value_update(value, value_update) == FAdd(value, value_update)

\* boolean::or(ctx, record_id, a, b): a + b - a * b, one multiplication
or(a, b) == FSub(FAdd(a, b), FMul(a, b))

\* A multiplication issued on the context narrowed to (depth, step) with
\* record id i, and the total declared for such a context.
Issued(depth, step, i) == <<depth, step, i>>
Declared(depth, step, n) == <<depth, step, n>>

\* An index a round uses on stop_bits that is out of bounds: the loop takes
\* &stop_bits[i] for i < end and &stop_bits[i + step_size] for i < next_end
\* (the indices into the values are below num_rows).
IndexOutOfBounds(stop_bits, num_rows, step_size) ==
    \E i \in 0 .. end_of(num_rows, step_size) - 1 :
        \/ i >= Len(stop_bits)
        \/ i < next_end_of(num_rows, step_size) /\ i + step_size >= Len(stop_bits)

\* A stop bit a round reads that the round before did not write, fresh
\* being the number of stop bits that round wrote.
ReadsStale(fresh, num_rows, step_size) ==
    \E i \in 0 .. end_of(num_rows, step_size) - 1 :
        \/ i >= fresh
        \/ i < next_end_of(num_rows, step_size) /\ i + step_size >= fresh

\* The stop bits after the round: stop_bits[i] = stop_bit_update for the
\* next_end futures that were pushed.
stop_bits_after(stop_bits, num_rows, step_size) ==
    [k \in 1 .. Len(stop_bits) |->
        IF k <= next_end_of(num_rows, step_size)
        THEN FMul(stop_bits[k], stop_bits[k + step_size])
        ELSE stop_bits[k]]

\* One pass of the loop of do_the_binary_tree_thing.
binary_tree_round(stop_bits, values, depth, step_size) ==
    LET num_rows == Len(values)
        end == end_of(num_rows, step_size)
        next_end == next_end_of(num_rows, step_size)
    IN [declared |-> << Declared(depth, "credit", end),
                        Declared(depth, "stop_bit", stop_bit_total(num_rows, step_size)) >>,
        issued |-> [k \in 1 .. end |-> Issued(depth, "credit", k - 1)]
                   \o [k \in 1 .. next_end |-> Issued(depth, "stop_bit", k - 1)],
        values |-> [k \in 1 .. num_rows |->
                       IF k <= end
                       THEN apply_value_update(values[k],
                                               FMul(stop_bits[k], values[k + step_size]))
                       ELSE values[k]],
        stop_bits |-> stop_bits_after(stop_bits, num_rows, step_size)]

\* One pass of the loop of prefix_or_binary_tree_style.
prefix_or_round(stop_bits, uncapped_credits, depth, step_size, should_add) ==
    LET num_rows == Len(uncapped_credits)
        end == end_of(num_rows, step_size)
        next_end == next_end_of(num_rows, step_size)
        adds == step_size = 1 /\ should_add
    IN [declared |-> << Declared(depth, "credit", end),
                        Declared(depth, "credit_or", end),
                        Declared(depth, "stop_bit", stop_bit_total(num_rows, step_size)) >>,
        issued |-> [k \in 1 .. end |-> Issued(depth, "credit", k - 1)]
                   \o (IF adds THEN <<>>
                       ELSE [k \in 1 .. end |-> Issued(depth, "credit_or", k - 1)])
                   \o [k \in 1 .. next_end |-> Issued(depth, "stop_bit", k - 1)],
        values |-> [k \in 1 .. num_rows |->
                       IF k <= end
                       THEN LET credit_update ==
                                    FMul(stop_bits[k], uncapped_credits[k + step_size])
                            IN IF adds THEN FAdd(credit_update, uncapped_credits[k])
                               ELSE or(uncapped_credits[k], credit_update)
                       ELSE uncapped_credits[k]],
        stop_bits |-> stop_bits_after(stop_bits, num_rows, step_size)]

\* The values of the rows of a call: the powers of two, so that a sum shows
\* which rows went into it.
RowValues(n) == [k \in 1 .. n |-> (2 ^ (k - 1)) % PRIME]

\* A call: which function, its flag (prefix_or only), stop bits of any
\* length and values of any length.
BtInit ==
    \E fn \in BtFns, flag \in BOOLEAN, ns \in 0 .. MaxRows, nv \in 0 .. MaxRows :
        \E stop_bits \in [1 .. ns -> {0, 1}] :
            /\ fn = "do_the_binary_tree_thing" => ~flag
            /\ bt = [fn |-> fn, flag |-> flag,
                     stops0 |-> stop_bits, values0 |-> RowValues(nv),
                     stop_bits |-> stop_bits, values |-> RowValues(nv),
                     pc |-> "called", depth |-> 0, step_size |-> 1,
                     fresh |-> ns, stale |-> FALSE,
                     declared |-> <<>>, issued |-> <<>>, panic |-> "none"]

BtIdle ==
    bt = [fn |-> "none", flag |-> FALSE, stops0 |-> <<>>, values0 |-> <<>>,
          stop_bits |-> <<>>, values |-> <<>>, pc |-> "done", depth |-> 0,
          step_size |-> 1, fresh |-> 0, stale |-> FALSE,
          declared |-> <<>>, issued |-> <<>>, panic |-> "none"]

\* The function is entered: the assertion of prefix_or_binary_tree_style.
BtEnter ==
    /\ bt.pc = "called"
    /\ bt' = IF /\ bt.fn = "prefix_or_binary_tree_style"
                /\ Len(bt.stop_bits) + 1 # Len(bt.values)
             THEN [bt EXCEPT !.pc = "panicked", !.panic = "assert_eq"]
             ELSE [bt EXCEPT !.pc = "loop"]
    /\ UNCHANGED <<streamVars, sendVars, mulVars, malVars, gateVars, ctxVars, shareVars, serVars, knownVars, netVars, urVars, grVars, leVars, bodyVars, rrtVars, pcVars, trVars>>

\* One step of the iterator successors(1, checked_mul(2)).take_while(v <
\* num_rows).enumerate() with the body of the loop, or the return.
BtRound ==
    LET round == IF bt.fn = "prefix_or_binary_tree_style"
                 THEN prefix_or_round(bt.stop_bits, bt.values, bt.depth,
                                      bt.step_size, bt.flag)
                 ELSE binary_tree_round(bt.stop_bits, bt.values, bt.depth, bt.step_size)
    IN
    /\ bt.pc = "loop"
    /\ bt' = IF bt.step_size = 0 \/ ~(bt.step_size < Len(bt.values))
             THEN [bt EXCEPT !.pc = "done"]
             ELSE IF bt.depth >= UsizeBits
             THEN [bt EXCEPT !.pc = "panicked", !.panic = "depth"]
             ELSE IF IndexOutOfBounds(bt.stop_bits, Len(bt.values), bt.step_size)
             THEN [bt EXCEPT !.pc = "panicked", !.panic = "index"]
             ELSE [bt EXCEPT !.declared = @ \o round.declared,
                             !.issued = @ \o round.issued,
                             !.stale = @ \/ ReadsStale(bt.fresh, Len(bt.values),
                                                       bt.step_size),
                             !.fresh = next_end_of(Len(bt.values), bt.step_size),
                             !.values = round.values,
                             !.stop_bits = round.stop_bits,
                             !.depth = @ + 1,
                             !.step_size = checked_mul2(@)]
    /\ UNCHANGED <<streamVars, sendVars, mulVars, malVars, gateVars, ctxVars, shareVars, serVars, knownVars, netVars, urVars, grVars, leVars, bodyVars, rrtVars, pcVars, trVars>>

BtNext ==
    \/ BtEnter
    \/ BtRound

(***************************************************************************)
(* ProtocolContext of protocol/context.rs: the semi-honest context, its    *)
(* upgrade to a malicious one with an accumulator, and the way back        *)
(***************************************************************************)

\* How many contexts one run derives from the root.
MaxDerived == 3

\* The accumulators of the validators of the run, and Option::None.
Accumulators == {"acc1", "acc2"}
NoAccumulator == "None"

\* ProtocolContext::new(role, participant, gateway); p is the PhantomData
\* of the sharing type.
protocol_context_new(role, participant, gateway) ==
    [role |-> role, step |-> <<>>, prss |-> participant, gateway |-> gateway,
     accumulator |-> NoAccumulator, p |-> "Replicated"]

\* narrow building its sub-context afresh, as new does
protocol_context_narrow_afresh(ctx, step) ==
    [role |-> ctx.role, step |-> descriptive_narrow(ctx.step, step),
     prss |-> ctx.prss, gateway |-> ctx.gateway,
     accumulator |-> NoAccumulator, p |-> ctx.p]

\* ProtocolContext::narrow
protocol_context_narrow(ctx, step) ==
    [role |-> ctx.role, step |-> descriptive_narrow(ctx.step, step),
     prss |-> ctx.prss, gateway |-> ctx.gateway,
     accumulator |-> ctx.accumulator, p |-> ctx.p]

\* ProtocolContext::upgrade_to_malicious
upgrade_to_malicious(ctx, accumulator) ==
    [role |-> ctx.role, step |-> ctx.step, prss |-> ctx.prss,
     gateway |-> ctx.gateway, accumulator |-> accumulator,
     p |-> "MaliciousReplicated"]

\* ProtocolContext::accumulator: the clone of the accumulator, or the panic
\* of expect on None.
accumulator(ctx) ==
    IF ctx.accumulator = NoAccumulator
    THEN [panic |-> TRUE, acc |-> NoAccumulator]
    ELSE [panic |-> FALSE, acc |-> ctx.accumulator]

\* ProtocolContext::to_semi_honest
to_semi_honest(ctx) ==
    [role |-> ctx.role, step |-> ctx.step, prss |-> ctx.prss,
     gateway |-> ctx.gateway, accumulator |-> NoAccumulator, p |-> "Replicated"]

\* The semi-honest root context of some helper.  held are the contexts of
\* the run with how each was made, asked the calls of accumulator() with
\* what they gave (history).
PcInit ==
    \E role \in Roles :
        pctx = [held |-> << Held(protocol_context_new(role, <<"prss", role>>,
                                                      <<"gateway", role>>),
                                 0, "new", "-") >>,
                asked |-> {}]

PcIdle ==
    pctx = [held |-> << Held(protocol_context_new(1, <<"prss", 1>>, <<"gateway", 1>>),
                             0, "new", "-") >>,
            asked |-> {}]

\* A protocol narrows the context at position i.
PcNarrow(i, step) ==
    /\ Len(pctx.held) <= MaxDerived
    /\ pctx' = [pctx EXCEPT !.held =
                    Append(@, Held(protocol_context_narrow(@[i].ctx, step),
                                   i, "narrow", step))]
    /\ UNCHANGED <<streamVars, sendVars, mulVars, malVars, gateVars, ctxVars, shareVars, serVars, knownVars, netVars, urVars, grVars, leVars, bodyVars, rrtVars, btVars, trVars>>

\* A validator upgrades the semi-honest context at position i.
PcUpgrade(i, acc) ==
    /\ Len(pctx.held) <= MaxDerived
    /\ pctx.held[i].ctx.p = "Replicated"
    /\ pctx' = [pctx EXCEPT !.held =
                    Append(@, Held(upgrade_to_malicious(@[i].ctx, acc),
                                   i, "upgrade_to_malicious", acc))]
    /\ UNCHANGED <<streamVars, sendVars, mulVars, malVars, gateVars, ctxVars, shareVars, serVars, knownVars, netVars, urVars, grVars, leVars, bodyVars, rrtVars, btVars, trVars>>

\* A protocol takes the malicious context at position i for a semi-honest
\* one.
PcToSemiHonest(i) ==
    /\ Len(pctx.held) <= MaxDerived
    /\ pctx.held[i].ctx.p = "MaliciousReplicated"
    /\ pctx' = [pctx EXCEPT !.held =
                    Append(@, Held(to_semi_honest(@[i].ctx), i, "to_semi_honest", "-"))]
    /\ UNCHANGED <<streamVars, sendVars, mulVars, malVars, gateVars, ctxVars, shareVars, serVars, knownVars, netVars, urVars, grVars, leVars, bodyVars, rrtVars, btVars, trVars>>

\* A malicious multiplication asks the context at position i for its
\* accumulator.
PcAccumulator(i) ==
    /\ pctx.held[i].ctx.p = "MaliciousReplicated"
    /\ pctx' = [pctx EXCEPT !.asked = @ \cup {<<i, accumulator(pctx.held[i].ctx)>>}]
    /\ UNCHANGED <<streamVars, sendVars, mulVars, malVars, gateVars, ctxVars, shareVars, serVars, knownVars, netVars, urVars, grVars, leVars, bodyVars, rrtVars, btVars, trVars>>

PcNext ==
    \/ \E i \in 1 .. Len(pctx.held), step \in CtxSteps : PcNarrow(i, step)
    \/ \E i \in 1 .. Len(pctx.held), acc \in Accumulators : PcUpgrade(i, acc)
    \/ \E i \in 1 .. Len(pctx.held) : PcToSemiHonest(i)
    \/ \E i \in 1 .. Len(pctx.held) : PcAccumulator(i)

(***************************************************************************)
(* derive(Step): the state transition map of the compact gate is built     *)
(* from the lines of the steps file.  A line is kept as its depth (the     *)
(* number of segments of its path) and the module and name of its last     *)
(* segment.                                                                *)
(***************************************************************************)

\* Bound on the lines of a steps file.
MaxLines == 4

LineDepths == 1 .. 3
StepLabels == {<<"StepA", "x">>, <<"StepA", "y">>, <<"StepB", "x">>}
Lines == [depth : LineDepths, module : {l[1] : l \in StepLabels},
          name : {l[2] : l \in StepLabels}]
StepLines == {l \in Lines : <<l.module, l.name>> \in StepLabels}

\* ipa_state_transition_map: the line enumerated as i (from 0) becomes the
\* step with id i + 1.
step_new(i, l) ==
    [id |-> i + 1, depth |-> l.depth, module |-> l.module, name |-> l.name]

\* The root of construct_tree.
RootStep == [id |-> 0, depth |-> 0, module |-> "ipa", name |-> "protocol/run-0"]

\* The tree: its nodes in the order they were added (node 0 is the root)
\* and the parent node of each.
NodeValue(t, n) == IF n = 0 THEN RootStep ELSE t.nodes[n]

\* The parent of the root: the weak reference that upgrades to None.
NoNode == -1

\* Node::get_parent: None for the root.
get_parent(t, n) == IF n = 0 THEN NoNode ELSE t.parent[n]

\* last_node.get_parent().unwrap(), k times: the unwrap of None panics.
RECURSIVE unwrap_parents(_, _, _)
unwrap_parents(t, n, k) ==
    IF k = 0 THEN n
    ELSE IF get_parent(t, n) = NoNode THEN NoNode
    ELSE unwrap_parents(t, get_parent(t, n), k - 1)

\* Node::add_child: the child is pushed to the children of the parent and
\* its parent reference is set.
add_child(t, p, step) ==
    [t EXCEPT !.nodes = Append(@, step), !.parent = Append(@, p),
              !.last = Len(t.nodes) + 1]

\* Node::get_children: in the order they were pushed.
RECURSIVE children_from(_, _, _)
children_from(t, p, n) ==
    IF n > Len(t.nodes) THEN <<>>
    ELSE (IF t.parent[n] = p THEN <<n>> ELSE <<>>) \o children_from(t, p, n + 1)
get_children(t, p) == children_from(t, p, 1)

\* A plausible slip: get_parent runs delta times (0..delta for 0..=delta).
construct_tree_step_exclusive_range(t, step) ==
    LET delta == NodeValue(t, t.last).depth - step.depth
        times == IF delta >= 0 THEN delta ELSE 0
        parent == unwrap_parents(t, t.last, times)
    IN IF parent = NoNode
       THEN [t EXCEPT !.status = "panicked"]
       ELSE add_child(t, parent, step)

\* One iteration of construct_tree: get_parent runs delta + 1 times (not at
\* all when the step is deeper than the last node) and the step is added
\* under the node arrived at.
construct_tree_step(t, step) ==
    LET delta == NodeValue(t, t.last).depth - step.depth
        times == IF delta >= 0 THEN delta + 1 ELSE 0
        parent == unwrap_parents(t, t.last, times)
    IN IF parent = NoNode
       THEN [t EXCEPT !.status = "panicked"]
       ELSE add_child(t, parent, step)

\* group_by_modules: the nodes in breadth-first order from the children of
\* the root, each pushed to the list of its module.
RECURSIVE traverse(_, _, _)
traverse(t, queue, out) ==
    IF queue = <<>> THEN out
    ELSE traverse(t, Tail(queue) \o get_children(t, Head(queue)),
                  Append(out, Head(queue)))
group_by_modules(t, module) ==
    SelectSeq(traverse(t, get_children(t, 0), <<>>),
              LAMBDA n : t.nodes[n].module = module)

\* expand: the arm (previous_state_id, new_state) => new_state_id of a node.
state_arm(t, n) ==
    [previous_state_id |-> NodeValue(t, get_parent(t, n)).id,
     new_state |-> t.nodes[n].name,
     new_state_id |-> t.nodes[n].id]

\* The arms of impl StepNarrow<module>, in the order of the module's list.
states(t, module) ==
    LET list == group_by_modules(t, module)
    IN [k \in 1 .. Len(list) |-> state_arm(t, list[k])]

\* The generated match: the first arm that matches, else static_state_map.
RECURSIVE match_arms(_, _, _, _)
match_arms(arms, k, state, name) ==
    IF k > Len(arms) THEN "static_state_map"
    ELSE IF arms[k].previous_state_id = state /\ arms[k].new_state = name
    THEN arms[k].new_state_id
    ELSE match_arms(arms, k + 1, state, name)
generated_narrow(tbl, module, state, name) == match_arms(tbl[module], 1, state, name)

StepModules == {l[1] : l \in StepLabels}
NoTable == [m \in StepModules |-> <<>>]

\* Nothing read yet: the tree holds its root.
TrInit ==
    tree = [lines |-> <<>>, nodes |-> <<>>, parent |-> <<>>, last |-> 0,
            status |-> "reading", table |-> NoTable]

TrIdle == TrInit

\* The next line of the file is made a step and added to the tree.
TrLine(l) ==
    /\ tree.status = "reading"
    /\ Len(tree.lines) < MaxLines
    /\ tree' = [construct_tree_step(tree, step_new(Len(tree.lines), l))
                   EXCEPT !.lines = Append(tree.lines, l)]
    /\ UNCHANGED <<streamVars, sendVars, mulVars, malVars, gateVars, ctxVars, shareVars, serVars, knownVars, netVars, urVars, grVars, leVars, bodyVars, rrtVars, btVars, pcVars>>

\* The file ends: expand generates the arms of every module.
TrExpand ==
    /\ tree.status = "reading"
    /\ tree' = [tree EXCEPT !.status = "expanded",
                            !.table = [m \in StepModules |-> states(tree, m)]]
    /\ UNCHANGED <<streamVars, sendVars, mulVars, malVars, gateVars, ctxVars, shareVars, serVars, knownVars, netVars, urVars, grVars, leVars, bodyVars, rrtVars, btVars, pcVars>>

TrNext ==
    \/ \E l \in StepLines : TrLine(l)
    \/ TrExpand

(***************************************************************************)
(* Specifications                                                          *)
(***************************************************************************)

\* The stream collection under any sequence of calls.
Init == StreamInit /\ SendIdle /\ MulIdle /\ MalIdle /\ GateIdle /\ CtxIdle /\ ShareIdle /\ SerIdle /\ KnownIdle /\ NetIdle /\ UrIdle /\ GrIdle /\ LeIdle /\ BodyIdle /\ RrtIdle /\ BtIdle /\ PcIdle /\ TrIdle

Next == StreamNext

Spec == Init /\ [][Next]_vars

\* The send path of one party under any order of record completion.
InitSend == SendInit /\ StreamIdle /\ MulIdle /\ MalIdle /\ GateIdle /\ CtxIdle /\ ShareIdle /\ SerIdle /\ KnownIdle /\ NetIdle /\ UrIdle /\ GrIdle /\ LeIdle /\ BodyIdle /\ RrtIdle /\ BtIdle /\ PcIdle /\ TrIdle

SpecSend == InitSend /\ [][SendNext]_vars
SpecSendFair == InitSend /\ [][SendNext]_vars /\ SendFairness

\* One semi-honest multiplication of the three parties; a party that can
\* take its next step is eventually polled.
InitMul == MulInit /\ StreamIdle /\ SendIdle /\ MalIdle /\ GateIdle /\ CtxIdle /\ ShareIdle /\ SerIdle /\ KnownIdle /\ NetIdle /\ UrIdle /\ GrIdle /\ LeIdle /\ BodyIdle /\ RrtIdle /\ BtIdle /\ PcIdle /\ TrIdle

SpecMul ==
    /\ InitMul
    /\ [][MulNext]_vars
    /\ \A i \in Roles : WF_vars(MulSend(i)) /\ WF_vars(MulRecv(i))

\* The malicious context chain of the three parties, with at most one
\* deviating party.
InitMal == MalInit /\ StreamIdle /\ SendIdle /\ MulIdle /\ GateIdle /\ CtxIdle /\ ShareIdle /\ SerIdle /\ KnownIdle /\ NetIdle /\ UrIdle /\ GrIdle /\ LeIdle /\ BodyIdle /\ RrtIdle /\ BtIdle /\ PcIdle /\ TrIdle

SpecMal == InitMal /\ [][MalNext]_vars

\* Two gates narrowed from the root of a query by any names.
InitGate == GateInit /\ StreamIdle /\ SendIdle /\ MulIdle /\ MalIdle /\ CtxIdle /\ ShareIdle /\ SerIdle /\ KnownIdle /\ NetIdle /\ UrIdle /\ GrIdle /\ LeIdle /\ BodyIdle /\ RrtIdle /\ BtIdle /\ PcIdle /\ TrIdle

SpecGate == InitGate /\ [][GateNext]_vars

\* One gate narrowed from the root of a query by any names.
GatePathNext ==
    \/ \E step \in StepNames : Narrow(1, step)
    \/ AsRef(1)

SpecGatePath == InitGate /\ [][GatePathNext]_vars

\* The contexts two parties derive from their roots by any calls.
InitCtx == CtxInit /\ StreamIdle /\ SendIdle /\ MulIdle /\ MalIdle /\ GateIdle /\ ShareIdle /\ SerIdle /\ KnownIdle /\ NetIdle /\ UrIdle /\ GrIdle /\ LeIdle /\ BodyIdle /\ RrtIdle /\ BtIdle /\ PcIdle /\ TrIdle

SpecCtx == InitCtx /\ [][CtxNext]_vars

\* The three parties apply any local operations to a sharing of the tests.
InitShare ==
    /\ ShareInit /\ StreamIdle /\ SendIdle /\ MulIdle /\ MalIdle /\ GateIdle
    /\ CtxIdle /\ SerIdle /\ KnownIdle /\ NetIdle /\ UrIdle /\ GrIdle /\ LeIdle /\ BodyIdle /\ RrtIdle /\ BtIdle /\ PcIdle /\ TrIdle

SpecShare == InitShare /\ [][ShareNext]_vars

\* Shares are written to one buffer, which is then decoded.
InitSer ==
    /\ SerInit /\ StreamIdle /\ SendIdle /\ MulIdle /\ MalIdle /\ GateIdle
    /\ CtxIdle /\ ShareIdle /\ KnownIdle /\ NetIdle /\ UrIdle /\ GrIdle /\ LeIdle /\ BodyIdle /\ RrtIdle /\ BtIdle /\ PcIdle /\ TrIdle

SpecSer == InitSer /\ [][SerNext]_vars

\* The three parties share a value known to all of them.
InitKnown ==
    /\ KnownInit /\ StreamIdle /\ SendIdle /\ MulIdle /\ MalIdle /\ GateIdle
    /\ CtxIdle /\ ShareIdle /\ SerIdle /\ NetIdle /\ UrIdle /\ GrIdle /\ LeIdle /\ BodyIdle /\ RrtIdle /\ BtIdle /\ PcIdle /\ TrIdle

SpecKnown == InitKnown /\ [][KnownNext]_vars

\* A helper sends the records of its channels to its peers.
InitNet ==
    /\ NetInit /\ StreamIdle /\ SendIdle /\ MulIdle /\ MalIdle /\ GateIdle
    /\ CtxIdle /\ ShareIdle /\ SerIdle /\ KnownIdle /\ UrIdle /\ GrIdle /\ LeIdle /\ BodyIdle /\ RrtIdle /\ BtIdle /\ PcIdle /\ TrIdle

SpecNet == InitNet /\ [][NetNext]_vars

\* Tasks request the records of one channel in any order while the bytes
\* of the inbound stream arrive in chunks of any size; a task that waits
\* is polled again, and the stream goes on yielding.
InitRecv ==
    /\ UrInit /\ StreamIdle /\ SendIdle /\ MulIdle /\ MalIdle /\ GateIdle
    /\ CtxIdle /\ ShareIdle /\ SerIdle /\ KnownIdle /\ NetIdle /\ GrIdle /\ LeIdle /\ BodyIdle /\ RrtIdle /\ BtIdle /\ PcIdle /\ TrIdle

SpecRecv ==
    /\ InitRecv
    /\ [][UrNext]_vars
    /\ WF_vars(\E n \in 1 .. MaxChunk : UrArrive(n))
    /\ \A i \in UrRecordIds : WF_vars(UrPoll(i))

\* Tasks on different threads ask the gateway for receivers.
InitGr ==
    /\ GrInit /\ StreamIdle /\ SendIdle /\ MulIdle /\ MalIdle /\ GateIdle
    /\ CtxIdle /\ ShareIdle /\ SerIdle /\ KnownIdle /\ NetIdle /\ UrIdle /\ LeIdle /\ BodyIdle /\ RrtIdle /\ BtIdle /\ PcIdle /\ TrIdle

SpecGr == InitGr /\ [][GrNext]_vars

\* A body stream is read through LogErrors.
InitLe ==
    /\ LeInit /\ StreamIdle /\ SendIdle /\ MulIdle /\ MalIdle /\ GateIdle
    /\ CtxIdle /\ ShareIdle /\ SerIdle /\ KnownIdle /\ NetIdle /\ UrIdle /\ GrIdle /\ BodyIdle /\ RrtIdle /\ BtIdle /\ PcIdle /\ TrIdle

SpecLe == InitLe /\ [][LeNext]_vars



\* The gateway of a query calls the adapter of its transport.
InitRrt ==
    /\ RrtInit /\ StreamIdle /\ SendIdle /\ MulIdle /\ MalIdle /\ GateIdle
    /\ CtxIdle /\ ShareIdle /\ SerIdle /\ KnownIdle /\ NetIdle /\ UrIdle /\ GrIdle
    /\ LeIdle /\ BodyIdle /\ BtIdle /\ PcIdle /\ TrIdle

SpecRrt == InitRrt /\ [][RrtNext]_vars

\* One call of a binary tree function of the attribution protocols.
InitBt ==
    /\ BtInit /\ StreamIdle /\ SendIdle /\ MulIdle /\ MalIdle /\ GateIdle
    /\ CtxIdle /\ ShareIdle /\ SerIdle /\ KnownIdle /\ NetIdle /\ UrIdle /\ GrIdle
    /\ LeIdle /\ BodyIdle /\ RrtIdle /\ PcIdle /\ TrIdle

SpecBt == InitBt /\ [][BtNext]_vars

\* Protocols derive contexts from the root context of a helper.
InitPc ==
    /\ PcInit /\ StreamIdle /\ SendIdle /\ MulIdle /\ MalIdle /\ GateIdle
    /\ CtxIdle /\ ShareIdle /\ SerIdle /\ KnownIdle /\ NetIdle /\ UrIdle /\ GrIdle
    /\ LeIdle /\ BodyIdle /\ RrtIdle /\ BtIdle /\ TrIdle

SpecPc == InitPc /\ [][PcNext]_vars

\* The derive macro reads a steps file and generates the arms.
InitTr ==
    /\ TrInit /\ StreamIdle /\ SendIdle /\ MulIdle /\ MalIdle /\ GateIdle
    /\ CtxIdle /\ ShareIdle /\ SerIdle /\ KnownIdle /\ NetIdle /\ UrIdle /\ GrIdle
    /\ LeIdle /\ BodyIdle /\ RrtIdle /\ BtIdle /\ PcIdle

SpecTr == InitTr /\ [][TrNext]_vars

(***************************************************************************)
(* The hand-off scenario: every key gets one add_stream and has one        *)
(* receiver, which its own task polls.  The executor polls a spawned or    *)
(* woken task again (weak fairness); nothing forces a spurious poll.       *)
(***************************************************************************)
HandoffReceivers == {"r1", "r3", "r4"}
TaskOf(r) ==
    CASE r = "r3" -> "t2"
      [] r = "r4" -> "t3"
      [] OTHER -> "t1"

AddStreamOnce(key) ==
    /\ accepted[key] = <<>>
    /\ AddStream(key)

HandoffNext ==
    \/ \E key \in StreamKey : AddStreamOnce(key)
    \/ \E r \in HandoffReceivers : ScheduledPoll(r, TaskOf(r))
    \/ \E r \in HandoffReceivers : SpuriousPoll(r, TaskOf(r))

SpecHandoff ==
    /\ Init
    /\ [][HandoffNext]_vars
    /\ \A r \in HandoffReceivers : WF_vars(ScheduledPoll(r, TaskOf(r)))

\* The receiver holds exactly the stream that was registered for its key.
Holds(r) ==
    /\ rcv[r].state = "Ready"
    /\ accepted[RKey(r)] = <<rcv[r].stream>>

\* No poll of the hand-off panics, a receiver that holds a stream holds the
\* registered one, a parked receiver has its waker stored, and a stream that
\* is ready for a receiver that has not taken it finds the receiver's task
\* runnable (the wake-up is not lost).
HandoffSafe ==
    \A r \in HandoffReceivers :
        /\ rcv[r].state # "Panicked"
        /\ rcv[r].state = "Ready" => Holds(r)
        /\ (rcv[r].state = "Pending" /\ TaskOf(r) \notin runnable)
              => streams[RKey(r)] = Waiting(TaskOf(r))
        /\ (rcv[r].state = "Pending" /\ streams[RKey(r)].state = "Ready")
              => TaskOf(r) \in runnable

\* C1: in every interleaving of one add_stream with the polls of one
\* receiver of the key, the hand-off is safe in every state and, once the
\* stream is registered, the receiver eventually holds exactly that stream,
\* whether add_stream came before or after the receiver's first poll.
C1_HandoffEitherOrder ==
    /\ []HandoffSafe
    /\ \A r \in HandoffReceivers : (accepted[RKey(r)] # <<>>) ~> Holds(r)

\* C1 witness: a receiver that was parked first (its poll stored the waker)
\* holds the stream that add_stream registered afterwards.
C1_Witness ==
    /\ Holds("r1")
    /\ lastCall.op = "add_waker" /\ lastCall.result = "some"
    /\ streams[RKey("r3")] = Waiting(TaskOf("r3"))
    /\ TaskOf("r3") \notin runnable

\* C2: a key accepts an inbound stream at most once: add_stream panics
\* exactly when the entry is Ready or Completed, succeeds when the key is
\* absent or Waiting, and no key ever stores a second stream.
C2_AddStreamAtMostOnce ==
    /\ \A key \in StreamKey : Len(accepted[key]) <= 1
    /\ lastCall.op = "add_stream" =>
          /\ lastCall.before \in {"Ready", "Completed"} => lastCall.result = "panic"
          /\ lastCall.before \in {"Absent", "Waiting"} => lastCall.result = "ok"

\* C2 witness: add_stream panicked on a key whose stream was already taken,
\* after an add_stream on a Waiting key had succeeded.
C2_Witness ==
    /\ lastCall.op = "add_stream"
    /\ lastCall.before = "Completed"
    /\ lastCall.result = "panic"
    /\ \E key \in StreamKey : accepted[key] # <<>> /\ key # lastCall.key

\* C3: an inbound stream is consumed at most once: per key at most one
\* add_waker call ever returned the stream, the entry is Completed from then
\* on, and an add_waker call that finds the entry Completed panics.
C3_ConsumedAtMostOnce ==
    /\ \A key \in StreamKey :
          /\ Len(taken[key]) <= 1
          /\ taken[key] # <<>> => streams[key].state = "Completed"
    /\ (lastCall.op = "add_waker" /\ lastCall.before = "Completed")
          => (lastCall.result = "panic" /\ lastCall.stream = NoStream)

\* C3 witness: one receiver took the stream of a key and the add_waker call
\* of a second receiver of the same key panicked.
C3_Witness ==
    /\ rcv["r1"].state = "Ready"
    /\ rcv["r2"].state = "Panicked"
    /\ lastCall.op = "add_waker" /\ lastCall.before = "Completed"
    /\ lastCall.result = "panic"

\* The sequence holds the records 0, 1, 2, ... of the channel's own gate, in
\* this order and without a gap.
InRecordOrder(seq, c) ==
    \A n \in 1 .. Len(seq) : seq[n] = Message(c[2], n - 1)

\* C4: on each channel the records reach the transport strictly in
\* increasing RecordId order, whatever the order in which they were handed to
\* the send path: record i is on the wire only after every record j < i.
C4_WireInRecordOrder ==
    \A c \in ChannelId : InRecordOrder(wire[c], c)

\* C4 witness: record 2 of a channel was handed over before record 1 (it is
\* parked, record 1 is not yet submitted) and record 0 is on the wire; on the
\* other channel all records have reached the wire.
C4_Witness ==
    /\ wire[<<"H2", "a">>] = <<Message("a", 0)>>
    /\ prod[<<"a", 2>>].state = "parked"
    /\ prod[<<"a", 1>>].state = "idle"
    /\ Len(wire[<<"H2", "b">>]) = MaxRecords

\* C5: the records a channel has accepted and not yet flushed never exceed
\* the active-work bound, and a send call that finds the buffer full is
\* suspended, not admitted.
C5_UnflushedWithinActiveWork ==
    /\ \A c \in ChannelId : Len(sender[c].buf) <= ActiveWork
    /\ (lastSend.op = "send" /\ lastSend.buffered >= ActiveWork)
          => lastSend.outcome = "parked"

\* C5 witness: the buffer of a channel is full and the producer of the next
\* record in turn has just been suspended by it.
C5_Witness ==
    /\ Len(sender[<<"H2", "a">>].buf) = ActiveWork
    /\ lastSend.op = "send" /\ lastSend.chan = <<"H2", "a">>
    /\ lastSend.rec = lastSend.next
    /\ lastSend.outcome = "parked"
    /\ prod[<<"a", sender[<<"H2", "a">>].next>>].state = "parked"

MulOutputs == <<mOut[1], mOut[2], mOut[3]>>
MulAllDone == \A i \in Roles : MulDone(i)

\* C6: when the three parties have run the semi-honest multiply for the
\* same step and record on valid sharings of a and b, their outputs form a
\* valid replicated sharing that reconstructs to a*b in the field; two
\* neighbours that are done already agree on the part they share.
C6_MultiplyReconstructsProduct ==
    /\ \A i \in Roles :
          (MulDone(i) /\ MulDone(RightOf(i))) => right(mOut[i]) = left(mOut[RightOf(i)])
    /\ MulAllDone =>
          /\ valid_secret_sharing(MulOutputs)
          /\ secret_shared_value(MulOutputs, FMul(mIn.va, mIn.vb))

\* C6 witness: over the field of size 31, shares of 4 and 5 that are not
\* trivially split reconstruct to 20.
C6_Witness ==
    /\ MulAllDone
    /\ mIn.va = 4 /\ mIn.vb = 5
    /\ mIn.a[1] # 0 /\ mIn.a[2] # 0 /\ mIn.b[1] # 0 /\ mIn.b[2] # 0
    /\ secret_shared_value(MulOutputs, 20)

\* A party that is past its send point has sent its message.
SentBeforeWaiting ==
    \A i \in Roles :
        ((MulDone(i) \/ MulProgram[mPc[i]] = "recv") /\ need_to_send(mZeros, i))
            => mSent[i]

\* C7: in each multiply call a party sends its message before it waits for
\* its peer's, so when the three parties run the call for the same step and
\* record nobody waits for a message that is never sent and all three calls
\* reach Done.
C7_SendBeforeWaitAllDone ==
    /\ []SentBeforeWaiting
    /\ <>MulAllDone

\* C7 witness: a party has sent and waits for a message that has not been
\* sent yet, while its right neighbour is done already.
C7_Witness ==
    /\ mPc[1] = 2 /\ mSent[1] /\ mChan[1] = <<>>
    /\ need_to_recv(mZeros, 1) /\ ~mSent[3]
    /\ MulDone(2)

\* The challenges of the chain: r, and the sum of the two parts of alpha
\* that party v holds for the accumulation of the product.
ChallengeR ==
    FAdd(FAdd(PrssEdge(vSeed, 1, StepNo("r_share"), MulRecord),
              PrssEdge(vSeed, 2, StepNo("r_share"), MulRecord)),
         PrssEdge(vSeed, 3, StepNo("r_share"), MulRecord))
ChallengeAlpha(v) ==
    FAdd(PrssEdge(vSeed, LeftOf(v), StepNo("mac_mul"), MulRecord),
         PrssEdge(vSeed, v, StepNo("mac_mul"), MulRecord))

MalAllReturned == \A i \in Roles : vPc[i] = "returned"
MalOutputs == [i \in Roles |-> vOut[i].output]

\* C8: when no party deviates, validate never reports a failed check: every
\* party that reaches the end of validate sees the value zero revealed, gets
\* Ok and returns; the sanity check of the runner passes and the validated
\* outputs are a valid sharing of a * b.
C8_HonestChainValidates ==
    vCheat = NoCheat =>
        /\ \A i \in Roles :
              /\ vRes[i] # Err("MaliciousSecurityCheckFailed")
              /\ vLocal[i].revealed # <<>> =>
                    /\ vLocal[i].revealed = <<0>>
                    /\ vRes[i].kind = "Ok"
                    /\ vPc[i] = "returned"
        /\ vSanity # "panic"
        /\ MalAllReturned =>
              /\ valid_secret_sharing(MalOutputs)
              /\ secret_shared_value(MalOutputs, FMul(vIn.va, vIn.vb))

\* C8 witness: an honest chain on non-zero inputs in which all three parties
\* have validated and returned and the sanity check has passed.
C8_Witness ==
    /\ vCheat = NoCheat
    /\ vIn.va = 1 /\ vIn.vb = 1 /\ vSeed = 1
    /\ \A i \in Roles : vRes[i].kind = "Ok" /\ vLocal[i].revealed = <<0>>
    /\ secret_shared_value(MalOutputs, 1)
    /\ vSanity = "ok"

\* The value validate reveals when the deviation is the only one: the
\* perturbation times the challenge of the party that received it, and for a
\* perturbed product also times -r.
CheatResidue ==
    LET s == ChallengeAlpha(RightOf(vCheat.party))
    IN IF vCheat.msg = "rx"
       THEN FMul(s, vCheat.e)
       ELSE FNeg(FMul(ChallengeR, FMul(s, vCheat.e)))

\* The challenges under which the deviation goes unnoticed.
CheatDegenerate ==
    \/ ChallengeAlpha(RightOf(vCheat.party)) = 0
    \/ vCheat.msg = "x" /\ ChallengeR = 0

\* C9: when exactly one party adds a non-zero perturbation to one message of
\* the multiplication, every party that reaches the end of validate sees the
\* perturbation times the challenge revealed, and validate fails with the
\* integrity error unless the challenge is degenerate; exactly one of the
\* PRIME values of a challenge is degenerate for the perturbation.
C9_SinglePerturbationFails ==
    vCheat # NoCheat =>
        /\ \A i \in Roles :
              vLocal[i].revealed # <<>> =>
                  /\ vLocal[i].revealed = <<CheatResidue>>
                  /\ ~CheatDegenerate =>
                        /\ vRes[i] = Err("MaliciousSecurityCheckFailed")
                        /\ vPc[i] = "panicked"
        /\ Cardinality({c \in Field : FMul(c, vCheat.e) = 0}) = 1

\* C9 witness: party 1 has perturbed the product message and validate has
\* failed with the integrity error at all three parties.
C9_Witness ==
    /\ vCheat.party = 1 /\ vCheat.msg = "x"
    /\ ~CheatDegenerate
    /\ \A i \in Roles : vRes[i] = Err("MaliciousSecurityCheckFailed")

\* C10: a party to which a non-zero value was revealed gets the integrity
\* error from validate, which is not the transport error, and its closure
\* panics and returns no output; a transport error is only reported to a
\* party to which no value was revealed.
C10_NonZeroRevealIsIntegrityFailure ==
    \A i \in Roles :
        /\ (vLocal[i].revealed # <<>> /\ vLocal[i].revealed # <<0>>) =>
              /\ vRes[i] = Err("MaliciousSecurityCheckFailed")
              /\ vRes[i] # Err("Transport")
              /\ vOut[i].panic
              /\ "output" \notin DOMAIN vOut[i]
              /\ vPc[i] = "panicked"
        /\ vRes[i] = Err("Transport") =>
              /\ vLocal[i].revealed = <<>>
              /\ vOut[i].panic

\* C10 witness: a non-zero value was revealed to one party, which got the
\* integrity error and panicked, while the transport failed under another.
C10_Witness ==
    /\ vLocal[1].revealed # <<>> /\ vLocal[1].revealed # <<0>>
    /\ vRes[1] = Err("MaliciousSecurityCheckFailed")
    /\ vOut[1].panic
    /\ vRes[2] = Err("Transport")

\* validate has been called by party i.
ValidationStarted(i) ==
    vPc[i] \in {"propagate_wait", "check_wait", "returned", "panicked"}

\* The accumulator updates of the chain: the two upgraded inputs and the
\* product of the protocol function.
ChainMacs == <<"mac_a", "mac_b", "mac_mul">>

\* C11: validate starts only after the protocol function has returned, with
\* the accumulator updates of all multiplications of the chain done in
\* order, and no step changes the accumulator of a party whose validation
\* has started; the values validate sends are those of the finished
\* accumulator.
C11_ValidateAfterAccumulation ==
    /\ [](\A i \in Roles :
            /\ ValidationStarted(i) => vLocal[i].macs = ChainMacs
            /\ ~ValidationStarted(i) =>
                  \E n \in 0 .. Len(ChainMacs) : vLocal[i].macs = SubSeq(ChainMacs, 1, n))
    /\ [][\A i \in Roles :
            /\ (~ValidationStarted(i) /\ ValidationStarted(i)') =>
                  /\ vPc[i] = "validate"
                  /\ vLocal[i].macs = ChainMacs
            /\ ValidationStarted(i) =>
                  /\ vLocal'[i].u = vLocal[i].u
                  /\ vLocal'[i].w = vLocal[i].w
                  /\ vLocal'[i].macs = vLocal[i].macs]_vars

\* C11 witness: party 1 has started validation with all three updates done
\* while party 2 is still inside the protocol function with two.
C11_Witness ==
    /\ vPc[1] = "propagate_wait" /\ vLocal[1].macs = ChainMacs
    /\ vPc[2] = "helper_wait" /\ vLocal[2].macs = <<"mac_a", "mac_b">>
    /\ vIn.va = 1 /\ vIn.vb = 1

\* The deviation went unnoticed: the challenge is degenerate, validate has
\* passed at all three parties.
CheatUnnoticed ==
    /\ vCheat # NoCheat
    /\ CheatDegenerate
    /\ MalAllReturned

\* The names of the special-case transitions.
SpecialNames == {"run-0", "fallback", "upgrade_semi-honest"}

\* Builder b holds a gate (no narrow of it has panicked).
HasGate(b) == ~gCompact[b].panic

\* Every narrow of the sequence was a transition of the table.
TableOnly(seq) == \A n \in 1 .. Len(seq) : seq[n] \notin SpecialNames

SameParentDistinctNames ==
    /\ HasGate(1) /\ HasGate(2)
    /\ Len(gSeq[1]) > 0 /\ Len(gSeq[1]) = Len(gSeq[2])
    /\ SubSeq(gSeq[1], 1, Len(gSeq[1]) - 1) = SubSeq(gSeq[2], 1, Len(gSeq[2]) - 1)
    /\ gSeq[1][Len(gSeq[1])] # gSeq[2][Len(gSeq[2])]

PathOf(state) == IF state = 0 THEN <<"run-0">> ELSE StepPath(state)

\* The steps file has the line for the child of the state by the name.
InTable(state, step) ==
    /\ state \in StepIds \cup {0}
    /\ \E id \in StepIds : StepPath(id) = Append(PathOf(state), step)

\* C14: a narrow whose (state, name) is in the table returns the state of
\* that line; on a miss the special-case transitions apply; if neither
\* matches the narrow panics and the builder holds no gate.
C14_TableThenSpecialElsePanic ==
    \A b \in Builders :
        LET from == IF gCompact[b].panic THEN gCompact[b].state ELSE gParent[b]
            step == IF gCompact[b].panic THEN gCompact[b].step
                    ELSE gSeq[b][Len(gSeq[b])]
        IN (gCompact[b].panic \/ Len(gSeq[b]) > 0) =>
            IF InTable(from, step)
            THEN /\ HasGate(b)
                 /\ StepPath(gCompact[b].state) = Append(PathOf(from), step)
            ELSE IF step = "run-0" THEN gCompact[b] = Narrowed(0)
            ELSE IF step = "fallback" THEN gCompact[b] = Narrowed(FALLBACK)
            ELSE IF step = "upgrade_semi-honest" \/ from = UPGRADE_SEMI_HONEST
                 THEN gCompact[b] = Narrowed(UPGRADE_SEMI_HONEST)
            ELSE /\ gCompact[b].panic
                 /\ ~ENABLED Narrow(b, step)

\* C14 witness: one builder went through a table transition and then
\* missed the table with a name that is no special case, and panicked; the
\* other missed the table and took a special-case transition.
C14_Witness ==
    /\ gSeq[1] = <<"A1">> /\ gCompact[1] = NarrowPanic(1, "C1")
    /\ gSeq[2] = <<"C1", "fallback">> /\ gCompact[2] = Narrowed(FALLBACK)

\* C15 as claimed: as_ref is defined on every compact state reached by
\* successful narrows, and two distinct such states never share a string.
C15_ReachableStatesHaveUniqueString ==
    /\ \A b \in Builders : gDiag[b].called => ~gDiag[b].compact.panic
    /\ (gDiag[1].called /\ gDiag[2].called /\ gCompact[1] # gCompact[2])
          => gDiag[1].compact # gDiag[2].compact

\* C16 as claimed: for every accepted name sequence the string of the
\* compact gate equals the string of the descriptive gate.
C16_CompactStringEqualsDescriptive ==
    \A b \in Builders :
        gDiag[b].called => gDiag[b].compact = gDiag[b].descriptive

(***************************************************************************)
(* Contexts: narrowing derives a child and leaves the parent alone         *)
(***************************************************************************)

\* The context at position k was returned by narrow.
IsNarrowed(k) == cCtx[k].op = "narrow"

\* The child at position k, set against the context it was narrowed from.
ChildOfNarrow(k) ==
    LET child == cCtx[k].ctx
        parent == cCtx[cCtx[k].parent].ctx
    IN  /\ child.step = descriptive_narrow(parent.step, cCtx[k].arg)
        /\ ctx_role(child) = ctx_role(parent)
        /\ child.total_records = parent.total_records
        /\ child.inner = parent.inner

\* No call changes the step or the record count of a context already held.
ContextsKept ==
    \A k \in 1 .. Len(cCtx) :
        /\ cCtx'[k].ctx.step = cCtx[k].ctx.step
        /\ cCtx'[k].ctx.total_records = cCtx[k].ctx.total_records

\* C17: narrow(step) returns a new context whose step is the parent's step
\* narrowed by the given name and whose role, total records and gateway and
\* PRSS handles are the parent's; the step and the total records of the
\* parent are unchanged by the call, whatever narrow and set_total_records
\* calls are made on it or on its children.
C17_NarrowDerivesChildKeepsParent ==
    /\ [](\A k \in 1 .. Len(cCtx) : IsNarrowed(k) => ChildOfNarrow(k))
    /\ [][ContextsKept]_vars

\* A root with a record count set on a copy of it, a child narrowed from the
\* root after that, and a child of that child.
C17_Witness ==
    \E k, j, l \in 1 .. Len(cCtx) :
        /\ cCtx[k].op = "set_total_records" /\ cCtx[k].parent = 1
        /\ IsNarrowed(j) /\ cCtx[j].parent = 1 /\ j > k
        /\ cCtx[j].ctx.total_records = Unspecified
        /\ IsNarrowed(l) /\ cCtx[l].parent = j
        /\ Len(cCtx[l].ctx.step) = 2

(***************************************************************************)
(* Local arithmetic on shares                                              *)
(***************************************************************************)

\* The value a sharing reconstructs to, as the tests read it off the shares.
SharedValue(res) == CHOOSE v \in Field : secret_shared_value(res, v)

\* The value the result of the last operation has to reconstruct to.
ExpectedValue(last) ==
    LET a == SharedValue(last.before)
        b == SharedValue(last.operand)
    IN  CASE last.op = "add" -> FAdd(a, b)
          [] last.op = "sub" -> FSub(a, b)
          [] last.op = "mul" -> FMul(last.scalar, a)
          [] last.op = "neg" -> FNeg(a)

\* C18: for valid replicated sharings of a and b and a public scalar c,
\* addition, subtraction and multiplication by c applied locally at each
\* party give shares that reconstruct to a + b, a - b and c * a in the field
\* (0 - 1 = 30 over the field of size 31).
C18_LocalArithmeticReconstructs ==
    shLast.op \in {"add", "sub", "mul"} =>
        secret_shared_value(shShares, ExpectedValue(shLast))

\* The sharing (0, 0, 0) of 0 minus a sharing of 1 reconstructs to 30.
C18_Witness ==
    /\ shLast.op = "sub"
    /\ shLast.before = secret_share(0, 0, 0)
    /\ SharedValue(shLast.operand) = 1
    /\ secret_shared_value(shShares, 30)

\* C19: the results of component-wise add, subtract, negate and multiply by
\* a public scalar, computed at each party on its own share of a valid
\* replicated sharing, form a valid replicated sharing again, after any
\* sequence of these operations.
C19_LocalArithmeticKeepsReplication == valid_secret_sharing(shShares)

\* A negation applied to the result of an earlier operation on shares whose
\* components differ.
C19_Witness ==
    /\ shLast.op = "neg"
    /\ shOps = MaxOps
    /\ valid_secret_sharing(shLast.before)
    /\ left(shLast.before[1]) # right(shLast.before[1])
    /\ left(shShares[1]) # 0

(***************************************************************************)
(* Serialization of shares                                                 *)
(***************************************************************************)

\* C20: serializing N shares into one contiguous buffer, each as the
\* fixed-width encoding of left followed by right, and decoding the buffer
\* with from_byte_slice gives the original sequence, in order, for N = 0,
\* N = 1 and N > 1.
C20_FromByteSliceInvertsSerialize ==
    /\ Len(serBuf) = ShareSize * Len(serIn)
    /\ \A k \in 1 .. Len(serIn) :
           SubSeq(serBuf, ShareSize * (k - 1) + 1, ShareSize * (k - 1) + VSize)
               = v_serialize(left(serIn[k]))
    /\ serOut.done => serOut.shares = serIn

\* Two different shares with different components, of more than one byte,
\* were written and read back.
C20_Witness ==
    /\ serOut.done
    /\ Len(serIn) = 2
    /\ serIn[1] # serIn[2]
    /\ left(serIn[1]) = 258 /\ right(serIn[1]) = 1
    /\ Len(serOut.shares) = 2

\* The empty buffer was decoded.
C20_WitnessEmpty == serOut.done /\ serIn = <<>> /\ serOut.shares = <<>>

(***************************************************************************)
(* Sharing a known value                                                   *)
(***************************************************************************)

\* The three closures have returned.
KnownAllShared == \A i \in Roles : known.shares[i] # NoShare

\* C21: for every public field value v the three semi-honest shares that
\* share_known_value returns at H1, H2 and H3 form a valid replicated
\* sharing that reconstructs to v, and no message is exchanged to produce
\* them.
C21_KnownValueShares ==
    /\ known.sent = 0
    /\ KnownAllShared =>
          /\ valid_secret_sharing(known.shares)
          /\ secret_shared_value(known.shares, known.value)
          /\ reconstruct(known.shares) = known.value

\* A value other than zero was shared by the three parties.
C21_Witness ==
    /\ KnownAllShared
    /\ known.value = 7
    /\ reconstruct(known.shares) = 7

(***************************************************************************)
(* Transport failures on send                                              *)
(***************************************************************************)

\* The request of call k was made and met an I/O failure.
SendFailed(k) ==
    /\ identity(netCalls[k].role) # SelfIdentity
    /\ netCalls[k].outcome \in {"io_error", "bad_status"}
    /\ netCalls[k].task # "running"

\* C22: an I/O failure while sending the records of a channel to a peer
\* surfaces to the caller of send as an error result; the send is not
\* retried and the failure is not turned into an unrecoverable fault.
C22_SendFailureIsErrorResult ==
    \A k \in 1 .. Len(netCalls) :
        SendFailed(k) =>
            /\ netCalls[k].result = "Err"
            /\ netCalls[k].task # "panicked"
            /\ netCalls[k].requests = 1

(***************************************************************************)
(* Receiving the records of a channel                                      *)
(***************************************************************************)

\* Record i was consumed already, or lies beyond the active window.
NotReceivable(i) == i < ur.next \/ i >= ur.next + ur_capacity

\* A call of receive(i) for a record that cannot be received is refused and
\* changes nothing else.
RefusedLeavesRest(i) ==
    (UrReceive(i) /\ NotReceivable(i)) =>
        /\ \E f \in ur'.refused : f.id = i /\ f.result.kind = "Err"
        /\ ur'.buf = ur.buf
        /\ ur'.next = ur.next
        /\ ur'.req = ur.req

\* C23: receive(i) for a record id that was consumed already, or that lies
\* beyond the active window, yields an error and never data, and the
\* delivery of the other records of the channel is not disturbed by it.
C23_UnreceivableRecordIsError ==
    /\ [](\A f \in ur.refused : f.result.kind = "Err")
    /\ [][\A i \in UrRecordIds : RefusedLeavesRest(i)]_vars

\* A consumed record was requested again and a record beyond the window
\* was requested too early; the latter was delivered later all the same.
C23_Witness ==
    \E f, g \in ur.refused :
        /\ f.result.why = "consumed"
        /\ g.result.why = "outside"
        /\ ur.req[g.id].state = "resolved"
        /\ ur.req[g.id].bytes = record_bytes(UrStream, g.id)

\* The request for record i has resolved.
Resolved(i) == ur.req[i].state = "resolved"

\* Record i and every record before it has been asked for, and i waits.
AwaitedInTurn(i) ==
    /\ ur.req[i].state = "pending"
    /\ \A j \in UrRecordIds : j < i => ur.req[j].state # "none"

\* C24: in whatever order tasks request distinct records of the active
\* window and in whatever chunks the bytes arrive, a request resolves with
\* exactly the bytes of its record; the request for the next record
\* resolves as soon as its bytes are there, whatever later requests are
\* pending; and every awaited record is received in the end.
C24_ReceiveResolvesWithItsRecord ==
    /\ [](\A i \in UrRecordIds :
            /\ Resolved(i) => ur.req[i].bytes = record_bytes(UrStream, i)
            /\ (i = ur.next /\ Len(ur.buf) >= (i + 1) * MsgSize)
                  => receive(ur_recv(ur, i)).kind = "Ok")
    /\ \A i \in UrRecordIds : AwaitedInTurn(i) ~> Resolved(i)

\* Record 0 was received from a chunk that ends inside record 1 while the
\* request for record 1 waits.
C24_Witness ==
    /\ Resolved(0)
    /\ ur.req[0].bytes = <<1, 2>>
    /\ ur.req[1].state = "pending"
    /\ Len(ur.buf) = 3

(***************************************************************************)
(* One receiver per channel                                                *)
(***************************************************************************)

\* How often the constructor closure ran for the channel.
CtrRuns(channel) ==
    Cardinality({k \in 1 .. Len(gr.made) : gr.made[k] = channel})

\* C25: for any interleaving of concurrent get_or_create calls with the same
\* channel id the constructor closure runs at most once and every caller
\* obtains a handle to the same receiver, so that at most one inbound
\* receiver exists per channel.
C25_OneReceiverPerChannel ==
    /\ \A channel \in Channels : CtrRuns(channel) <= 1
    /\ \A c, d \in Callers :
          (/\ gr.caller[c].pc = "returned"
           /\ gr.caller[d].pc = "returned"
           /\ gr.caller[c].channel = gr.caller[d].channel)
              => gr.caller[c].receiver = gr.caller[d].receiver

(***************************************************************************)
(* The cancellation scenario: the receiver of a key is dropped while it    *)
(* is pending, and another receiver is created for the key once the        *)
(* stream has been registered.                                             *)
(***************************************************************************)
CancelKey == RKey("r1")

\* A receiver that was dropped, with the state its key had then (history).
\* ReceiveRecords has no Drop of its own: the collection is not told.
RcvDropped(left_behind) ==
    [state |-> "Dropped", stream |-> NoStream, left_behind |-> left_behind]

\* The pending receiver r goes out of scope.
DropPending(r) ==
    /\ rcv[r].state = "Pending"
    /\ rcv' = [rcv EXCEPT ![r] = RcvDropped(streams[RKey(r)].state)]
    /\ lastCall' = [op |-> "drop", key |-> RKey(r), by |-> NoTask,
                    before |-> streams[RKey(r)].state, result |-> "ok",
                    stream |-> NoStream]
    /\ UNCHANGED <<streams, runnable, nextStream, accepted, taken, poisoned>>
    /\ UNCHANGED <<sendVars, mulVars, malVars, gateVars, ctxVars, shareVars, serVars, knownVars, netVars, urVars, grVars, leVars, bodyVars, rrtVars, btVars, pcVars, trVars>>

\* The receiver created after the stream was registered is polled, by any
\* task and whether or not that task was woken.
LaterPoll(r, task) ==
    /\ rcv["r1"].state = "Dropped"
    /\ accepted[CancelKey] # <<>>
    /\ PollNext(r, task)

CancelNext ==
    \/ \E key \in StreamKey : AddStream(key)
    \/ ScheduledPoll("r1", TaskOf("r1"))
    \/ SpuriousPoll("r1", TaskOf("r1"))
    \/ DropPending("r1")
    \/ \E task \in Tasks : LaterPoll("r2", task)

SpecCancel == Init /\ [][CancelNext]_vars

\* C26: dropping a receiver that is still pending is tolerated at the stream
\* layer: no fault occurs, an inbound stream registered afterwards for the
\* same key is accepted and kept buffered, and a receiver created later for
\* that key obtains it, whenever that later receiver is first polled.
C26_DroppedReceiverTolerated ==
    rcv["r1"].state = "Dropped" =>
        /\ lastCall.op = "drop" => lastCall.result = "ok"
        /\ (/\ lastCall.op = "add_stream"
            /\ lastCall.key = CancelKey
            /\ lastCall.before \in {"Absent", "Waiting"})
              => lastCall.result = "ok" /\ accepted[CancelKey] = <<lastCall.stream>>
        /\ accepted[CancelKey] # <<>> =>
              /\ rcv["r2"].state \in {"Pending", "Ready"}
              /\ rcv["r2"].state = "Pending"
                    => streams[CancelKey] = Ready(accepted[CancelKey][1])
              /\ rcv["r2"].state = "Ready"
                    => /\ rcv["r2"].stream = accepted[CancelKey][1]
                       /\ streams[CancelKey] = Completed

\* The dropped receiver had left its waker behind, and the later receiver,
\* polled by another task, holds the stream registered in between.
C26_Witness ==
    /\ rcv["r1"].state = "Dropped"
    /\ rcv["r1"].left_behind = "Waiting"
    /\ rcv["r2"].state = "Ready"
    /\ rcv["r2"].stream = accepted[CancelKey][1]
    /\ lastCall.op = "add_waker"
    /\ lastCall.by # TaskOf("r1")

(***************************************************************************)
(* The stream collection: wakers, lifecycle, panics                        *)
(***************************************************************************)

\* The step is a call of add_waker for a key that is Waiting.
AddWakerOnWaiting ==
    /\ lastCall'.op = "add_waker"
    /\ streams[lastCall'.key].state = "Waiting"

\* C27: while a key is Waiting, add_waker with a waker that the stored waker
\* would wake returns no stream and leaves the entry unchanged (the stored
\* waker is not replaced); add_waker with a waker that the stored one would
\* not wake (a poll from a different task) panics.
C27_WaitingKeepsWakerOrPanics ==
    [][AddWakerOnWaiting =>
          /\ streams' = streams
          /\ IF will_wake(streams[lastCall'.key].waker, lastCall'.by)
             THEN lastCall'.result = "none"
             ELSE lastCall'.result = "panic"]_vars

\* A poll from another task than the one whose waker is stored panicked.
C27_Witness ==
    /\ lastCall.op = "add_waker"
    /\ lastCall.before = "Waiting"
    /\ lastCall.result = "panic"
    /\ streams[lastCall.key].state = "Waiting"
    /\ streams[lastCall.key].waker # lastCall.by

\* The states an entry may move to from each state.
Lifecycle(from) ==
    CASE from = "Absent" -> {"Absent", "Waiting", "Ready"}
      [] from = "Waiting" -> {"Waiting", "Ready"}
      [] from = "Ready" -> {"Ready", "Completed"}
      [] from = "Completed" -> {"Completed"}

\* C28: the lifecycle of a key in the stream collection is monotone: an
\* entry is never removed and its state only moves absent -> Waiting ->
\* Ready -> Completed or absent -> Ready -> Completed; Completed is terminal
\* and no operation returns an entry to an earlier state.
C28_LifecycleMonotone ==
    [][\A key \in StreamKey :
          /\ streams'[key].state \in Lifecycle(streams[key].state)
          /\ streams'[key].state = streams[key].state
                => streams'[key] = streams[key]]_vars

\* A key went through Waiting and Ready and is Completed, and a stream that
\* came for it afterwards was turned away.
C28_Witness ==
    \E key \in StreamKey :
        /\ streams[key] = Completed
        /\ lastCall.op = "add_stream"
        /\ lastCall.key = key
        /\ lastCall.result = "panic"
        /\ \E r \in Receivers : rcv[r].state = "Panicked" /\ RKey(r) = key

\* The step is a call of add_stream or add_waker that panicked.
CallPanicked ==
    /\ lastCall'.op \in {"add_stream", "add_waker"}
    /\ lastCall'.result = "panic"
    /\ lastCall' # lastCall

\* What the calls on the key would give in the state before and in the
\* state after the step is the same.
SameAnswers(key) ==
    /\ \A stream \in 1 .. MaxStreams :
          locked_add_stream(poisoned', streams'[key], stream)
              = locked_add_stream(poisoned, streams[key], stream)
    /\ \A task \in Tasks :
          locked_add_waker(poisoned', streams'[key], task)
              = locked_add_waker(poisoned, streams[key], task)

\* C29: a contract violation does not corrupt the stream collection: when
\* add_stream or add_waker panics the entry of the key is left as it was,
\* the lock of the collection was released before the panic (the mutex is
\* not poisoned), and later operations on other keys behave as if the
\* failed call had not happened.
C29_PanicLeavesCollectionIntact ==
    [][CallPanicked =>
          /\ streams'[lastCall'.key] = streams[lastCall'.key]
          /\ ~poisoned'
          /\ \A key \in StreamKey \ {lastCall'.key} : SameAnswers(key)
          /\ accepted' = accepted /\ taken' = taken]_vars

\* A poll panicked on one key, and afterwards a stream was registered for
\* another key and taken by its receiver.
C29_Witness ==
    \E r, q \in Receivers :
        /\ rcv[r].state = "Panicked"
        /\ RKey(q) # RKey(r)
        /\ rcv[q].state = "Ready"
        /\ lastCall.op = "add_waker"
        /\ lastCall.key = RKey(q)
        /\ lastCall.result = "some"
        /\ ~poisoned

\* Poll k of the adapter passed the chunk of the inner stream on, and the
\* adapter yields a chunk only when the inner stream yielded one.
PassedThrough(k) ==
    /\ le.polled[k].tag = "ok" => le.out[k] = LeSome(le.polled[k].chunk)
    /\ le.out[k].tag = "some" => le.polled[k].tag = "ok"

\* The inner stream yielded an error at poll j: the adapter answered with
\* the end of the stream, and answers no later poll with a chunk.
TerminatedAt(j) ==
    le.polled[j].tag = "err" =>
        /\ le.out[j] = LeNone
        /\ \A k \in j + 1 .. Len(le.out) : le.out[k].tag # "some"

\* C30: LogErrors passes every Ok chunk of the inner stream through
\* unchanged and in order; when the inner stream yields an error the stream
\* is terminated: LogErrors yields end-of-stream for it and yields no chunk
\* on any later poll.
C30_LogErrorsTerminatesOnError ==
    /\ \A k \in 1 .. Len(le.out) : PassedThrough(k)
    /\ \A j \in 1 .. Len(le.out) : TerminatedAt(j)

\* The chunks pass through and an error is answered with the end of the
\* stream: what the code does hold of every poll.
LogErrorsPassesAndEnds ==
    /\ \A k \in 1 .. Len(le.out) : PassedThrough(k)
    /\ \A j \in 1 .. Len(le.out) : le.polled[j].tag = "err" => le.out[j] = LeNone

(***************************************************************************)
(* The step requests of the HTTP transport: the handler of a request       *)
(* registers its body, chunks arrive on the body, and the receivers of     *)
(* the protocol poll.                                                      *)
(***************************************************************************)

\* The body of stream s is polled: the next chunk that has arrived and was
\* not read, or Pending.
body_poll_next(arrived, read) ==
    IF read < Len(arrived) THEN InnerOk(arrived[read + 1]) ELSE InnerPending

\* ReceiveRecordsInner::poll_next with the chunk that arrived passed on at
\* the poll after the one it was ready for (one chunk late)
records_poll_next_skips(inner, arrived, read) ==
    IF inner.state = "Ready"
    THEN LET polled == IF read + 1 < Len(arrived[inner.stream])
                       THEN InnerOk(arrived[inner.stream][read + 2])
                       ELSE InnerPending
         IN poll_next(polled).ret
    ELSE LePending

\* ReceiveRecordsInner::poll_next, after the collection was asked: a
\* receiver that holds the stream polls it (LogErrors over the body), one
\* that does not returns Poll::Pending.
records_poll_next(inner, arrived, read) ==
    IF inner.state = "Ready"
    THEN poll_next(body_poll_next(arrived[inner.stream], read)).ret
    ELSE LePending

\* The receivers of the scenario, their two keys (the requests that arrive
\* are for these), and the k-th chunk a peer sends on the body of stream s:
\* no two chunks are alike.
BodyReceivers == {"r1", "r3"}
BodyKeys == {RKey(r) : r \in BodyReceivers}
BodyChunk(s, k) == <<s, k>>

\* handler of net/server/handlers/query/step.rs: receive_stream(query_id,
\* step, origin, body).
ReceiveStream(key) == AddStream(key)

\* A chunk arrives on the body of a request that was registered.
BodyArrive(s) ==
    /\ s < nextStream
    /\ Len(body.arrived[s]) < MaxArrive
    /\ body' = [body EXCEPT !.arrived[s] = Append(@, BodyChunk(s, Len(@) + 1))]
    /\ UNCHANGED streamVars
    /\ UNCHANGED <<sendVars, mulVars, malVars, gateVars, ctxVars, shareVars, serVars, knownVars, netVars, urVars, grVars, leVars, rrtVars, btVars, pcVars, trVars>>

\* The stream receive(from, (query, step)) returned is polled by its task.
ReceivePoll(r) ==
    /\ PollRecords(r, TaskOf(r))
    /\ LET inner == rcv'[r]
           s == inner.stream
           read == IF s = NoStream THEN 0 ELSE body.read[s]
           ret == records_poll_next(inner, body.arrived, read)
       IN body' = IF inner.state = "Panicked" THEN body
                  ELSE [arrived |-> body.arrived,
                        read |-> IF ret.tag = "some"
                                 THEN [body.read EXCEPT ![s] = @ + 1]
                                 ELSE body.read,
                        out |-> IF ret.tag = "some"
                                THEN [body.out EXCEPT ![r] =
                                         Append(@, [stream |-> s, bytes |-> ret.bytes])]
                                ELSE body.out,
                        last |-> [by |-> r, ret |-> ret, stream |-> s,
                                  unread |-> s # NoStream /\ read < Len(body.arrived[s])]]
    /\ UNCHANGED <<sendVars, mulVars, malVars, gateVars, ctxVars, shareVars, serVars, knownVars, netVars, urVars, grVars, leVars, rrtVars, btVars, pcVars, trVars>>

BodyNext ==
    \/ \E key \in BodyKeys : ReceiveStream(key)
    \/ \E s \in 1 .. MaxStreams : BodyArrive(s)
    \/ \E r \in BodyReceivers : ReceivePoll(r)

SpecBody == Init /\ [][BodyNext]_vars

\* The stream was registered with receive_stream under the key of r.
RegisteredFor(r, s) ==
    \E i \in 1 .. Len(accepted[RKey(r)]) : accepted[RKey(r)][i] = s

\* What r has yielded are the first chunks of one body, as they arrived.
YieldsItsBody(r) ==
    \A k \in 1 .. Len(body.out[r]) :
        /\ RegisteredFor(r, body.out[r][k].stream)
        /\ k <= Len(body.arrived[body.out[r][k].stream])
        /\ body.out[r][k].bytes = body.arrived[body.out[r][k].stream][k]

\* C31: a body registered with receive_stream(query, step, from) is
\* delivered only through the stream that receive(from, (query, step))
\* returns for the same key: that stream is Pending while no chunk has
\* arrived and then yields every chunk exactly once, unchanged and in arrival
\* order; a receiver for a different key never yields those chunks.
C31_BodyDeliveredToItsReceiver ==
    /\ \A r \in Receivers : YieldsItsBody(r)
    /\ \A r \in Receivers :
          rcv[r].state = "Ready" => Len(body.out[r]) = body.read[rcv[r].stream]
    /\ \A r, q \in Receivers :
          (r # q /\ body.out[r] # <<>> /\ body.out[q] # <<>>)
              => body.out[r][1].stream # body.out[q][1].stream
    /\ body.last.by # "none" =>
          /\ body.last.unread <=> body.last.ret.tag = "some"
          /\ ~body.last.unread <=> body.last.ret = LePending

\* Two bodies were registered and both were delivered whole, each by the
\* receiver of its key, after a poll that found nothing.
C31_Witness ==
    /\ Len(body.out["r1"]) = MaxArrive
    /\ Len(body.out["r3"]) = MaxArrive
    /\ body.out["r1"][1].stream # body.out["r3"][1].stream
    /\ body.arrived[body.out["r1"][1].stream] # body.arrived[body.out["r3"][1].stream]
    /\ body.last.ret = LePending
    /\ body.last.stream # NoStream

\* Call k was made on a channel whose role is played by the helper itself.
ToItself(k) == rrt.roles[rrt.calls[k].channel_id.role] = rrt.identity

\* C32: a party never sends to or receives from itself: when the role of a
\* channel id resolves to the party's own helper identity, send and receive
\* of RoleResolvingTransport panic before any call reaches the underlying
\* transport; otherwise send forwards the data to the identity assigned to
\* the channel's role under the route (Records, query id, channel step).
C32_NeverToItself ==
    \A k \in 1 .. Len(rrt.calls) :
        LET call == rrt.calls[k] IN
        /\ ToItself(k) => call.panic /\ call.inner = NoInnerCall
        /\ call.inner # NoInnerCall => call.inner.peer # rrt.identity
        /\ (~ToItself(k) /\ call.op = "send") =>
              /\ ~call.panic
              /\ call.inner.op = "send"
              /\ call.inner.peer = rrt.roles[call.channel_id.role]
              /\ call.inner.route = <<"Records", rrt.query_id, call.channel_id.step>>

\* With roles that are not the helpers' numbers, a send and a receive on
\* the helper's own role panicked, or a send went to the peer of the role.
C32_Witness ==
    /\ \E r \in Roles : rrt.roles[r] # r
    /\ Len(rrt.calls) = MaxCalls
    /\ ToItself(1) /\ rrt.calls[1].op = "receive" /\ rrt.calls[1].panic
    /\ ~ToItself(2) /\ rrt.calls[2].op = "send"
    /\ rrt.calls[2].inner.peer # rrt.calls[2].channel_id.role

\* C33: once a compact gate is in the upgrade_semi-honest state, every
\* subsequent narrow, with any step name, leaves it in that state (any
\* subsequent narrows are ignored).
C33_UpgradeStateAbsorbs ==
    \A b \in Builders :
        (gSeq[b] # <<>> /\ gParent[b] = UPGRADE_SEMI_HONEST)
            => gCompact[b] = Narrowed(UPGRADE_SEMI_HONEST)

\* What holds of the code: a gate in the upgrade_semi-honest state stays in
\* it under every name but the two that the earlier arms of static_state_map
\* take, run-0 and fallback.
UpgradeStateAbsorbsOtherNames ==
    \A b \in Builders :
        (/\ gSeq[b] # <<>>
         /\ gParent[b] = UPGRADE_SEMI_HONEST
         /\ gSeq[b][Len(gSeq[b])] \notin {"run-0", "fallback"})
            => gCompact[b] = Narrowed(UPGRADE_SEMI_HONEST)

\* The compact states a gate goes through with the narrows of seq from the
\* root: element k + 1 is the state after k narrows.
RECURSIVE PathStates(_)
PathStates(seq) ==
    IF seq = <<>> THEN <<0>>
    ELSE LET before == PathStates(SubSeq(seq, 1, Len(seq) - 1))
         IN Append(before, compact_narrow(before[Len(before)], seq[Len(seq)]).state)

\* The compact state a gate has after the narrows of seq from the root.
CompactAt(seq) == PathStates(seq)[Len(seq) + 1]

\* The path of builder b up to its k-th narrow.
PathTo(b, k) == SubSeq(gSeq[b], 1, k)

\* A narrow by step from state is decided by an arm of the generated table.
TableDecides(state, step) == TableArms(ModuleOf(step), state, step) # {}

\* Narrow k of builder b was decided by an arm of the generated table.
ByTable(b, k) == TableDecides(CompactAt(PathTo(b, k - 1)), gSeq[b][k])

IssuedCount(depth, step, i) ==
    Cardinality({k \in 1 .. Len(bt.issued) : bt.issued[k] = Issued(depth, step, i)})
ContextUsed(depth, step) ==
    \E k \in 1 .. Len(bt.issued) :
        bt.issued[k][1] = depth /\ bt.issued[k][2] = step

\* C35: at every depth of prefix_or_binary_tree_style and
\* do_the_binary_tree_thing, on each narrowed context that is used at all,
\* a multiplication is issued exactly once for every record id in 0..n-1,
\* where n is the total-records value declared for that context with
\* set_total_records, and for no record id >= n; no record of a channel is
\* sent twice or left unsent.
C35_EveryDeclaredRecordOnce ==
    /\ \A j \in 1 .. Len(bt.declared) :
          LET depth == bt.declared[j][1]
              step == bt.declared[j][2]
              n == bt.declared[j][3]
          IN ContextUsed(depth, step) =>
                 /\ \A i \in 0 .. n - 1 : IssuedCount(depth, step, i) = 1
                 /\ \A i \in n .. MaxRows : IssuedCount(depth, step, i) = 0
    /\ \A k \in 1 .. Len(bt.issued) :
          \E j \in 1 .. Len(bt.declared) :
              /\ bt.declared[j][1] = bt.issued[k][1]
              /\ bt.declared[j][2] = bt.issued[k][2]

\* C35 witness: prefix_or_binary_tree_style returned after two rounds or
\* more with the addition in the first: the or context unused at depth 0
\* and used at depth 1, stop bits multiplied at depth 0.
C35_Witness ==
    /\ bt.fn = "prefix_or_binary_tree_style"
    /\ bt.flag
    /\ bt.pc = "done"
    /\ bt.depth >= 2
    /\ ~ContextUsed(0, "credit_or")
    /\ ContextUsed(1, "credit_or")
    /\ ContextUsed(0, "stop_bit")

\* The number of consecutive stop bits equal to 1 from index i on, and the
\* sum of n + 1 values from index i on.
RECURSIVE RunLen(_, _), SumFrom(_, _, _)
RunLen(stops, i) ==
    IF i > Len(stops) \/ stops[i] # 1 THEN 0 ELSE 1 + RunLen(stops, i + 1)
SumFrom(values, i, n) ==
    IF n = 0 THEN values[i] ELSE FAdd(values[i], SumFrom(values, i + 1, n - 1))

RECURSIVE CeilLog2(_)
CeilLog2(n) == IF n <= 1 THEN 0 ELSE 1 + CeilLog2((n + 1) \div 2)

\* The call is one the documentation of do_the_binary_tree_thing covers.
TreeCall ==
    /\ bt.fn = "do_the_binary_tree_thing"
    /\ Len(bt.stops0) + 1 = Len(bt.values0)

\* C36: for stop bits that are each 0 or 1 and a list of values of length
\* one more than the stop bits, do_the_binary_tree_thing leaves in values[i]
\* the sum of the original values[i] through values[i+n], where n is the
\* number of consecutive stop bits equal to 1 starting at index i; it does
\* so in ceil(log2(length)) doubling rounds and never reads a stop bit that
\* an earlier round left stale.
C36_BinaryTreeSums ==
    TreeCall =>
        /\ ~bt.stale
        /\ bt.pc # "panicked"
        /\ bt.pc = "done" =>
              /\ bt.depth = CeilLog2(Len(bt.values0))
              /\ \A i \in 1 .. Len(bt.values0) :
                    bt.values[i] = SumFrom(bt.values0, i, RunLen(bt.stops0, i))

\* C36 witness: a call with as many rows as the bound allows returned; a
\* run of ones spans more than two rows and another row stops at once.
C36_Witness ==
    /\ TreeCall
    /\ bt.pc = "done"
    /\ Len(bt.values0) = MaxRows
    /\ \E i \in 1 .. Len(bt.stops0) : RunLen(bt.stops0, i) >= 3
    /\ \E i \in 1 .. Len(bt.stops0) : RunLen(bt.stops0, i) = 0

\* C37: prefix_or_binary_tree_style and do_the_binary_tree_thing never
\* panic, for any lengths of their input slices (stop bits and
\* credits/values) and any flag value: every slice index they use is in
\* bounds and the depth index stays below 64.
C37_NeverPanics == bt.pc # "panicked"

\* What holds of the code: with one stop bit less than values the two
\* functions do not panic.
NoPanicOnMatchingLengths ==
    Len(bt.stops0) + 1 = Len(bt.values0) => bt.pc # "panicked"

\* The accumulator the chain of context i goes back to: that of the upgrade
\* its narrows started from, none for a semi-honest context.
RECURSIVE ChainAccumulator(_)
ChainAccumulator(i) ==
    LET h == pctx.held[i] IN
    CASE h.op = "upgrade_to_malicious" -> h.arg
      [] h.op = "narrow" -> ChainAccumulator(h.parent)
      [] OTHER -> NoAccumulator

\* C38: every context obtained from upgrade_to_malicious(acc) through any
\* sequence of narrow calls holds the same accumulator acc, so accumulator()
\* never panics on a context of a malicious chain; to_semi_honest returns a
\* context with the same role, step, PRSS and gateway and with no
\* accumulator.
C38_ChainKeepsAccumulator ==
    /\ \A i \in 1 .. Len(pctx.held) :
          LET h == pctx.held[i] IN
          /\ h.ctx.p = "MaliciousReplicated" =>
                /\ ChainAccumulator(i) \in Accumulators
                /\ h.ctx.accumulator = ChainAccumulator(i)
          /\ h.op = "to_semi_honest" =>
                /\ h.ctx.role = pctx.held[h.parent].ctx.role
                /\ h.ctx.step = pctx.held[h.parent].ctx.step
                /\ h.ctx.prss = pctx.held[h.parent].ctx.prss
                /\ h.ctx.gateway = pctx.held[h.parent].ctx.gateway
                /\ h.ctx.accumulator = NoAccumulator
    /\ \A a \in pctx.asked :
          /\ ~a[2].panic
          /\ a[2].acc = ChainAccumulator(a[1])

\* C38 witness: a context two narrows below an upgrade was asked for its
\* accumulator, and was taken back to a semi-honest context at a step of
\* its own.
C38_Witness ==
    \E i, j \in 1 .. Len(pctx.held) :
        /\ pctx.held[i].op = "narrow"
        /\ pctx.held[pctx.held[i].parent].op = "upgrade_to_malicious"
        /\ \E a \in pctx.asked : a[1] = i
        /\ pctx.held[j].op = "to_semi_honest"
        /\ pctx.held[j].parent = i
        /\ pctx.held[j].ctx.step # <<>>

\* A record handed to the send path: its send call was made.
Submitted(p) == prod[p].state # "idle"
\* The record has reached the transport.
Flushed(p) ==
    \E c \in ChannelId : \E n \in 1 .. Len(wire[c]) : wire[c][n] = Message(p[1], p[2])
Suspended(p) == prod[p].state = "parked"
Resumed(p) == prod[p].state \in {"woken", "sent"}

\* No record is left behind: every record handed to the send path has
\* reached the transport and no producer is suspended.
Settled ==
    \A p \in Producers : (Submitted(p) => Flushed(p)) /\ ~Suspended(p)

\* C39: backpressure never deadlocks a channel: when the records below a
\* submitted one are eventually submitted and the transport keeps taking
\* what is buffered, every submitted record is eventually flushed and every
\* suspended producer is eventually resumed.  A submitted record stays
\* submitted and a flushed record stays flushed, so this is: from some point
\* on, every submitted record has been flushed and no producer is suspended.
C39_BackpressureNeverDeadlocks == <>[]Settled

\* C39 witness: a producer that was suspended by a full buffer has been
\* resumed and its record has reached the transport.
C39_Witness ==
    \E p \in Producers :
        /\ prod[p].full
        /\ prod[p].state = "sent"
        /\ Flushed(p)

\* A listing in depth-first pre-order: no line is shallower than the first
\* and no line is more than one level deeper than the line before it.
PreOrder(lines) ==
    \A k \in 1 .. Len(lines) :
        /\ lines[k].depth >= lines[1].depth
        /\ k > 1 => lines[k].depth <= lines[k - 1].depth + 1

\* The nearest line before line k whose depth is one less; 0, the root,
\* when there is none.
NearestShallower(lines, k) ==
    LET above == {j \in 1 .. (k - 1) : lines[j].depth = lines[k].depth - 1}
    IN IF above = {} THEN 0 ELSE CHOOSE j \in above : \A i \in above : i <= j

\* Every line became a node under the nearest shallower line, in line order.
AttachedToNearest ==
    /\ tree.status # "panicked"
    /\ Len(tree.nodes) = Len(tree.lines)
    /\ \A n \in 1 .. Len(tree.nodes) :
          tree.parent[n] = NearestShallower(tree.lines, n)

\* The id of a step is its line number and no two nodes share an id.
IdsAreLineNumbers ==
    /\ \A n \in 1 .. Len(tree.nodes) : tree.nodes[n].id = n
    /\ \A n, m \in 0 .. Len(tree.nodes) :
          n # m => NodeValue(tree, n).id # NodeValue(tree, m).id

\* What the generated narrow of the step's module returns for the state of
\* the step's parent and the step's name.
NarrowTo(n) ==
    generated_narrow(tree.table, tree.nodes[n].module,
                     NodeValue(tree, tree.parent[n]).id, tree.nodes[n].name)

\* The first line with the parent, module and name of line n.
FirstNamed(n) ==
    CHOOSE m \in 1 .. n :
        /\ tree.parent[m] = tree.parent[n]
        /\ tree.nodes[m].module = tree.nodes[n].module
        /\ tree.nodes[m].name = tree.nodes[n].name
        /\ \A i \in 1 .. (m - 1) :
              ~ /\ tree.parent[i] = tree.parent[n]
                /\ tree.nodes[i].module = tree.nodes[n].module
                /\ tree.nodes[i].name = tree.nodes[n].name

\* The arm (parent id, name) => id of line n is among the arms of its module.
HasArm(n) ==
    \E k \in 1 .. Len(tree.table[tree.nodes[n].module]) :
        tree.table[tree.nodes[n].module][k] =
            [previous_state_id |-> NodeValue(tree, tree.parent[n]).id,
             new_state |-> tree.nodes[n].name,
             new_state_id |-> tree.nodes[n].id]

\* C40: for a listing in depth-first pre-order every step hangs under the
\* nearest preceding step one level up (or the root), its id is its line
\* number, ids are distinct, and the generated table holds the arm
\* (parent id, step name) => id of every step.  The generated match returns
\* for (parent id, step name) the id of the first line with that parent,
\* module and name: the step itself unless the listing repeats a line.
C40_TreeAndTableOfListing ==
    PreOrder(tree.lines) =>
        /\ AttachedToNearest
        /\ IdsAreLineNumbers
        /\ tree.status = "expanded" =>
              \A n \in 1 .. Len(tree.nodes) :
                  /\ HasArm(n)
                  /\ NarrowTo(n) = tree.nodes[FirstNamed(n)].id

\* C40 witness: the arms were generated for a pre-order listing of MaxLines
\* lines in which a line climbs back above the line before it and a line
\* repeats the parent, module and name of an earlier one.
C40_Witness ==
    /\ tree.status = "expanded"
    /\ PreOrder(tree.lines)
    /\ Len(tree.lines) = MaxLines
    /\ \E k \in 2 .. Len(tree.lines) : tree.lines[k].depth < tree.lines[k - 1].depth
    /\ \E n \in 1 .. Len(tree.nodes) : FirstNamed(n) # n

=============================================================================
